---- MODULE Spec2Model ----
(***************************************************************************)
(* Model of the playlist generator backend: the wearable store and mood    *)
(* model, the Spotify track resolution pipeline behind the playlist        *)
(* routes, and the Whoop OAuth token lifecycle.                            *)
(*                                                                         *)
(* Conventions.  A JavaScript value that may be null/undefined is a        *)
(* sequence of length 0 or 1: None is <<>>, Some(v) is <<v>>.  Decimal     *)
(* numbers are integers counting hundredths (0.7 is 70, 85 is 8500).       *)
(* Times are milliseconds.                                                 *)
(***************************************************************************)
EXTENDS Integers, Sequences, FiniteSets, TLC

VARIABLES
  wearableData,   \* inMemoryStore.wearableData: provider -> None | Some(sample)
  moodSnapshot,   \* inMemoryStore.moodSnapshot: None | Some(mood)
  pc,             \* position of the playlist request in flight
  req,            \* its inputs: route, accessToken, useAI, openaiKey
  mood,           \* the request's own mood object (None before it is read)
  attempts,       \* fetchLiveTracks: the filtered candidate list
  calls,          \* search calls issued so far in this request, with outcomes
  enrichCalls,    \* enrichment calls issued so far in this request
  enrichReply,    \* how the enrichment call ended: None | Some(answer or throw)
  live,           \* how fetchLiveTracks ended for this request
  res,            \* the HTTP response of the request
  tokenStore,     \* WhoopService.tokenStore: userId -> None | Some(TokenRecord)
  now,            \* Date.now()
  tcall,          \* the token-using calls, by call id
  issued,         \* number of access tokens the provider has issued
  oauth,          \* the Whoop authorization redirect in flight: None | Some(...)
  wreq            \* the wearable route request in flight and its response

storeVars == <<wearableData, moodSnapshot>>
reqVars == <<pc, req, mood, attempts, calls, enrichCalls, enrichReply, live, res>>
tokenVars == <<tokenStore, now, tcall, issued>>
auxVars == <<oauth, wreq>>
vars == <<storeVars, reqVars, tokenVars, auxVars>>

None == <<>>
Some(v) == <<v>>
Min(a, b) == IF a < b THEN a ELSE b
Max(a, b) == IF a > b THEN a ELSE b

(***************************************************************************)
(* Bounds of the model.                                                    *)
(***************************************************************************)
\* shuffle() outcomes explored per result: rotations by 0..MaxShuffle
MaxShuffle == 1
\* the clock advances at most this many times
MaxTicks == 1
\* the provider issues at most this many access tokens
MaxIssued == 3

(***************************************************************************)
(* Wearable adapters (services/wearableAdapters).                          *)
(* A JavaScript value of a payload is a record with its type t: undefined, *)
(* null, a number n, a string that is not a number, or an object with its  *)
(* own properties in fields.                                               *)
(***************************************************************************)
Undefined == [t |-> "undefined"]
Null == [t |-> "null"]
Num(n) == [t |-> "number", n |-> n]
Text == [t |-> "string"]
Obj(fields) == [t |-> "object", fields |-> fields]

\* value.name for a value that is not undefined or null
Get(value, name) ==
  IF value.t = "object" /\ name \in DOMAIN value.fields THEN value.fields[name]
  ELSE Undefined

\* value?.name
OptGet(value, name) == IF value.t \in {"undefined", "null"} THEN Undefined ELSE Get(value, name)

\* a ?? b
Coalesce(a, b) == IF a.t \in {"undefined", "null"} THEN b ELSE a

\* JavaScript truthiness; the strings of the model are not empty
IsTruthy(value) ==
  IF value.t = "number" THEN value.n # 0 ELSE value.t \in {"string", "object"}

\* a || b
Either(a, b) == IF IsTruthy(a) THEN a ELSE b

\* Number(value): None stands for NaN
ToNumber(value) ==
  IF value.t = "number" THEN Some(value.n)
  ELSE IF value.t = "null" THEN Some(0)
  ELSE None

\* mutant: Number(value) with null for NaN only
NumberOrNull_KeepZero(value) ==
  IF ToNumber(value) = None THEN None ELSE Some(ToNumber(value)[1] * 100)

\* Number(value) || null, in hundredths: NaN and 0 both become null
NumberOrNull(value) ==
  IF ToNumber(value) = None \/ ToNumber(value)[1] = 0 THEN None
  ELSE Some(ToNumber(value)[1] * 100)

Providers == {"whoop", "oura"}
MetricKeys == {"hrv", "sleepQuality", "strain", "readiness", "restingHeartRate"}

\* what a call of normalize or of an adapter gives: a value, or a throw
Value(v) == [kind |-> "ok", value |-> v, status |-> None]
TypeError == [kind |-> "TypeError", value |-> None, status |-> None]
UnsupportedProviderError == [kind |-> "error", value |-> None, status |-> Some(400)]

\* normalizeWhoopPayload(payload = {}): the default stands in for undefined
\* only, and a property read of null throws
normalizeWhoopPayload(payload) ==
  IF payload.t = "null" THEN TypeError
  ELSE LET recovery == Either(Get(payload, "recovery"), Obj(<<>>))
           sleep == Either(Get(payload, "sleep"), Obj(<<>>))
       IN Value(
            [provider |-> "whoop",
             metrics |->
               [hrv |-> NumberOrNull(Coalesce(Get(recovery, "hrv"),
                                              Get(recovery, "heart_rate_variability"))),
                sleepQuality |-> NumberOrNull(Coalesce(Get(sleep, "score"),
                                                       Get(sleep, "quality_score"))),
                strain |-> NumberOrNull(Coalesce(Get(payload, "strain"),
                                                 OptGet(Get(payload, "training_load"),
                                                        "strain"))),
                readiness |-> NumberOrNull(Coalesce(Get(recovery, "score"),
                                                    Get(recovery, "readiness_score"))),
                restingHeartRate |-> NumberOrNull(Get(recovery, "resting_heart_rate"))]])

\* normalizeOuraPayload(payload = {})
normalizeOuraPayload(payload) ==
  IF payload.t = "null" THEN TypeError
  ELSE LET readiness == Either(Get(payload, "readiness"), Obj(<<>>))
           sleep == Either(Either(Get(payload, "sleep"), Get(payload, "sleep_summary")),
                           Obj(<<>>))
       IN Value(
            [provider |-> "oura",
             metrics |->
               [hrv |-> NumberOrNull(Get(readiness, "hrv_balance")),
                sleepQuality |-> NumberOrNull(Get(sleep, "score")),
                strain |-> NumberOrNull(Either(OptGet(Get(payload, "activity"), "strain"),
                                               OptGet(Get(payload, "activity"), "score"))),
                readiness |-> NumberOrNull(Get(readiness, "score")),
                restingHeartRate |->
                  NumberOrNull(Either(Get(sleep, "resting_heart_rate"),
                                      Get(readiness, "resting_heart_rate")))]])

\* a payload stored as it came: an entry with no provider and no metrics
\* (the payloads of the model have neither property)
rawEntry == [provider |-> "undefined", metrics |-> [k \in MetricKeys |-> None]]

\* adapters[provider] (line 10): the adapters object has two own properties
\* and inherits those of Object.prototype, of which the model has
\* "constructor", the function Object
adapterOf(provider) ==
  IF provider \in Providers THEN Some(provider)
  ELSE IF provider = "constructor" THEN Some("Object")
  ELSE None

\* normalize(provider, payload) (lines 9-19); Object(payload) gives an
\* object payload back as it is
normalize(provider, payload) ==
  IF adapterOf(provider) = None THEN UnsupportedProviderError
  ELSE IF adapterOf(provider) = Some("whoop") THEN normalizeWhoopPayload(payload)
  ELSE IF adapterOf(provider) = Some("oura") THEN normalizeOuraPayload(payload)
  ELSE Value(rawEntry)

(***************************************************************************)
(* In-memory store (store/inMemoryStore.js).                               *)
(***************************************************************************)
\* Number(x.toFixed(2)) of a / b, in hundredths: round half away from zero
RoundDiv(a, b) ==
  IF a >= 0 THEN (2 * a + b) \div (2 * b) ELSE -((2 * (-a) + b) \div (2 * b))

RECURSIVE SumOver(_, _, _)
SumOver(data, key, ps) ==
  IF ps = {} THEN 0
  ELSE LET p == CHOOSE x \in ps : TRUE
       IN data[p][1].metrics[key][1] + SumOver(data, key, ps \ {p})

averageMetric_CountAll(data, key) ==
  LET have == {p \in DOMAIN data : data[p] # None /\ data[p][1].metrics[key] # None}
      entries == {p \in DOMAIN data : data[p] # None}
  IN IF have = {} THEN None
     ELSE Some(RoundDiv(SumOver(data, key, have), Cardinality(entries)))

averageMetric(data, key) ==
  LET have == {p \in DOMAIN data : data[p] # None /\ data[p][1].metrics[key] # None}
  IN IF have = {} THEN None
     ELSE Some(RoundDiv(SumOver(data, key, have), Cardinality(have)))

getAggregatedMetrics(data) ==
  LET entries == {p \in DOMAIN data : data[p] # None}
  IN IF entries = {} THEN None
     ELSE Some([sampleCount |-> Cardinality(entries),
                providers |-> {data[p][1].provider : p \in entries},
                metrics |-> [k \in MetricKeys |-> averageMetric(data, k)]])

(***************************************************************************)
(* Mood model (services/moodModel.js).                                     *)
(***************************************************************************)
clamp_NoUpperBound(value, min, max) ==
  IF value = None THEN None ELSE Some(Max(value[1], min))

\* clamp(value, min = 0, max = 1), in hundredths
clamp(value, min, max) ==
  IF value = None THEN None ELSE Some(Min(Max(value[1], min), max))

\* moodModel's normalize(value, min, max); min and max are whole numbers
normalizeValue(value, min, max) ==
  IF value = None THEN None
  ELSE clamp(Some(RoundDiv(value[1] - 100 * min, max - min)), 0, 100)

OrElse(v, d) == IF v = None THEN d ELSE v[1]

buildFeatureVector(metrics) ==
  [readinessScore |-> OrElse(normalizeValue(metrics.readiness, 0, 100), 50),
   recoveryScore |-> OrElse(normalizeValue(metrics.hrv, 20, 150), 50),
   sleepScore |-> OrElse(normalizeValue(metrics.sleepQuality, 0, 100), 50),
   strainScore |-> OrElse(normalizeValue(metrics.strain, 0, 21), 30),
   restingHrScore |->
     OrElse(normalizeValue(
              IF metrics.restingHeartRate # None /\ metrics.restingHeartRate[1] # 0
              THEN Some(8000 - metrics.restingHeartRate[1]) ELSE None,
              -10, 50), 50)]

MoodLabels == {"flow", "amped", "recovery", "reset"}

selectLabel_RecoveryFirst(f) ==
  IF f.readinessScore > 70 /\ f.sleepScore > 70 THEN "flow"
  ELSE IF f.readinessScore < 45 \/ f.sleepScore < 45 THEN "recovery"
  ELSE IF f.strainScore > 60 /\ f.readinessScore > 55 THEN "amped"
  ELSE "reset"

\* MOOD_LABELS.find(config => config.condition(features)).label
selectLabel(f) ==
  IF f.readinessScore > 70 /\ f.sleepScore > 70 THEN "flow"
  ELSE IF f.strainScore > 60 /\ f.readinessScore > 55 THEN "amped"
  ELSE IF f.readinessScore < 45 \/ f.sleepScore < 45 THEN "recovery"
  ELSE "reset"

\* The mood object.  summary, recommendations and the target* hints are
\* fixed per label and left out; searchQuery, seedGenres and source are the
\* fields the playlist route may overlay, absent in a computed mood.
computeMood(f) ==
  [label |-> selectLabel(f),
   score |-> RoundDiv(f.readinessScore * 25 + f.sleepScore * 20 + f.recoveryScore * 20
                      + f.restingHrScore * 15 - f.strainScore * 15, 100),
   searchQuery |-> None,
   seedGenres |-> None,
   source |-> None]

\* inferMood(aggregatedMetrics); None stands for the thrown 400 error
inferMood(aggregatedMetrics) ==
  IF aggregatedMetrics = None THEN None
  ELSE Some(computeMood(buildFeatureVector(aggregatedMetrics[1].metrics)))

(***************************************************************************)
(* Spotify service (services/spotifyService.js).                           *)
(***************************************************************************)
MOOD_PRESETS ==
  [flow |-> <<"\"deep focus\"", "chill instrumental", "ambient focus">>,
   amped |-> <<"high energy workout", "edm bangers", "alt rock hype">>,
   recovery |-> <<"calm acoustic sleep", "lofi meditation", "piano relaxation">>,
   reset |-> <<"feel good indie", "uplifting pop", "jazzy morning">>]

FALLBACK_TRACKS ==
  [flow |-> <<"flow-1", "flow-2">>,
   amped |-> <<"amped-1", "amped-2">>,
   recovery |-> <<"recovery-1", "recovery-2">>,
   reset |-> <<"reset-1", "reset-2">>]

getPreset(label) ==
  IF label \in DOMAIN MOOD_PRESETS THEN MOOD_PRESETS[label] ELSE MOOD_PRESETS.reset

\* mutant: the default list whatever the label
getFallbackTracks_AlwaysReset(label) == FALLBACK_TRACKS.reset

getFallbackTracks(label) ==
  IF label \in DOMAIN FALLBACK_TRACKS THEN FALLBACK_TRACKS[label]
  ELSE FALLBACK_TRACKS.reset

\* raw items of a search result of n tracks, and mapTrack (which keeps the id)
Items(n) == [i \in 1..n |-> "track-" \o ToString(i)]
mapTrack(track) == track

\* shuffle(array): Math.random picks the permutation; the model explores the
\* rotations by 0..MaxShuffle positions
Rotate(s, k) == [i \in 1..Len(s) |-> s[((i + k - 1) % Len(s)) + 1]]
shuffle(array) == {Rotate(array, k) : k \in 0..Min(MaxShuffle, Max(Len(array) - 1, 0))}

\* the number of raw results asked of the search API, and the tracks kept
SEARCH_LIMIT == 30
TRACK_LIMIT == 20
slice(s, n) == SubSeq(s, 1, Min(n, Len(s)))

RECURSIVE Join(_, _)
Join(strs, sep) ==
  IF Len(strs) = 0 THEN ""
  ELSE IF Len(strs) = 1 THEN strs[1]
  ELSE strs[1] \o sep \o Join(Tail(strs), sep)

\* fetchLiveTracks, lines 100-102
aiQueryOf(m) == m.searchQuery
genreQueryOf(m) ==
  LET seedGenres == OrElse(m.seedGenres, <<>>)
  IN IF Len(seedGenres) # 0 THEN Some(Join(seedGenres, " ") \o " " \o m.label) ELSE None

Truthy(optStr) == optStr # None /\ optStr[1] # ""

\* the candidates contributed by the enrichment hints (lines 108-109)
aiAttempts(m, useAI) ==
  (IF useAI /\ Truthy(aiQueryOf(m)) THEN <<aiQueryOf(m)[1]>> ELSE <<>>)
  \o (IF useAI /\ Truthy(genreQueryOf(m)) THEN <<genreQueryOf(m)[1]>> ELSE <<>>)

\* mutant: the enrichment candidates are taken whatever useAI says
buildAttempts_IgnoreFlag(m, useAI) ==
  SelectSeq(aiAttempts(m, TRUE) \o getPreset(m.label) \o <<m.label>>,
            LAMBDA q : q # "")

\* attempts.filter(Boolean) (lines 107-116)
buildAttempts(m, useAI) ==
  SelectSeq(aiAttempts(m, useAI) \o getPreset(m.label) \o <<m.label>>,
            LAMBDA q : q # "")

\* line 124
isAiSource(query, m) ==
  \/ (aiQueryOf(m) # None /\ query = aiQueryOf(m)[1])
  \/ (genreQueryOf(m) # None /\ query = genreQueryOf(m)[1])

sourceTag(query, m) == IF isAiSource(query, m) THEN "openai-search" ELSE "spotify-search"

(***************************************************************************)
(* Inputs of the playlist requests and answers of the collaborators.       *)
(***************************************************************************)
\* req.body.accessToken: absent, empty or a token
AccessTokens == {None, Some(""), Some("spotify-token")}

\* sizes of the item list a search call answers with (at most SEARCH_LIMIT)
RawSizes == {0, 2, 20, 21, SEARCH_LIMIT}

\* error.response?.status of a failed search call: 401, 429, or no response
SearchErrorStatuses == {Some(401), Some(429), None}

Pending == [kind |-> "pending", n |-> 0, status |-> None]
SearchOutcomes ==
  {[kind |-> "ok", n |-> r, status |-> None] : r \in RawSizes}
  \cup {[kind |-> "error", n |-> 0, status |-> st] : st \in SearchErrorStatuses}

\* validateMood (openaiService.js): the label of a parsed enrichment answer
validateMood(m) == IF m \in MoodLabels THEN m ELSE "reset"

\* parsed answers of analyzeAndGeneratePlaylistParams: mood as sent by the
\* model, searchQuery ("" when missing) and genres (at most 4)
EnrichHints ==
  {[searchQuery |-> "lofi beats", genres |-> <<"ambient", "piano">>],
   [searchQuery |-> "", genres |-> <<>>],
   [searchQuery |-> "chill instrumental", genres |-> <<>>],
   [searchQuery |-> "", genres |-> <<"jazz">>]}
RawMoods == MoodLabels \cup {"party"}

\* statuses of a failed enrichment call: invalid key, rate limit, other
EnrichErrorStatuses == {Some(401), Some(429), None}

NoReq == [route |-> "none", accessToken |-> None, useAI |-> FALSE, openaiKey |-> FALSE]
NoRes == [kind |-> "none", status |-> 0, tracks |-> <<>>, source |-> ""]
NoLive == [kind |-> "none", status |-> 0, tracks |-> <<>>, source |-> "", query |-> ""]

\* res.json({tracks, source, ...}) and next(error)
JsonRes(status, tracks, source) ==
  [kind |-> "json", status |-> status, tracks |-> tracks, source |-> source]
ErrorRes == [kind |-> "error", status |-> 0, tracks |-> <<>>, source |-> ""]

(***************************************************************************)
(* fetchLiveTracks, one step per awaited search call.                      *)
(***************************************************************************)
\* line 119: if (items.length)
HasItems(outcome) == outcome.kind = "ok" /\ outcome.n > 0

\* mutants: no failure aborts the loop; every failure aborts the loop
IsUnauthorized_Never(outcome) == FALSE
IsUnauthorized_AnyError(outcome) == outcome.kind = "error"

\* line 139: error.response?.status === 401
IsUnauthorized(outcome) == outcome.kind = "error" /\ outcome.status = Some(401)

\* mutant: the slice is forgotten
takeTracks_NoSlice(shuffled) == [i \in 1..Len(shuffled) |-> mapTrack(shuffled[i])]

\* line 121: shuffle(items).slice(0, 20).map(mapTrack), for one permutation
takeTracks(shuffled) ==
  LET kept == slice(shuffled, TRACK_LIMIT) IN [i \in 1..Len(kept) |-> mapTrack(kept[i])]

\* lines 126-130
LiveOk(query, tracks, m) ==
  [kind |-> "ok", status |-> 200, tracks |-> tracks, source |-> sourceTag(query, m),
   query |-> query]

\* lines 140-142
TokenExpiredError == [kind |-> "error", status |-> 401, tracks |-> <<>>, source |-> "",
                      query |-> ""]

\* mutant: exhaustion reported with the status of an expired token
NoResultsError_As401 == TokenExpiredError

\* lines 147-149
NoResultsError == [kind |-> "error", status |-> 502, tracks |-> <<>>, source |-> "",
                   query |-> ""]

\* mutant: the route lets the error of fetchLiveTracks through
RouteAnswer_NoCatch(result, label) ==
  IF result.kind = "ok" THEN JsonRes(200, result.tracks, result.source) ELSE ErrorRes

\* the caller's try/catch around fetchLiveTracks (playlistRoutes.js 46-55,
\* aiPlaylistRoutes.js 60-70): live tracks, or the fallback list on any error
RouteAnswer(result, label) ==
  IF result.kind = "ok" THEN JsonRes(200, result.tracks, result.source)
  ELSE JsonRes(200, getFallbackTracks(label), "fallback")

\* the source tag of the branch without an access token
NoTokenTag(route) == IF route = "ai" THEN "fallback-no-token" ELSE "fallback"

\* fetchLiveTracks ends with `result`; a route that called it answers
Finish(result, label, route) ==
  /\ live' = result
  /\ res' = IF route = "direct" THEN NoRes ELSE RouteAnswer(result, label)
  /\ pc' = "done"

StartLive_Parallel(m, useAI, route) ==
  /\ mood' = Some(m)
  /\ attempts' = buildAttempts(m, useAI)
  /\ IF buildAttempts(m, useAI) = <<>>
     THEN calls' = <<>> /\ Finish(NoResultsError, m.label, route)
     ELSE /\ calls' = [k \in 1..Len(buildAttempts(m, useAI)) |->
                        [query |-> buildAttempts(m, useAI)[k], outcome |-> Pending]]
          /\ pc' = "searching"
          /\ live' = NoLive
          /\ res' = NoRes

\* fetchLiveTracks(accessToken, m, useAI) up to its first await (lines 93-118)
StartLive(m, useAI, route) ==
  /\ mood' = Some(m)
  /\ attempts' = buildAttempts(m, useAI)
  /\ IF buildAttempts(m, useAI) = <<>>
     THEN calls' = <<>> /\ Finish(NoResultsError, m.label, route)
     ELSE /\ calls' = <<[query |-> buildAttempts(m, useAI)[1], outcome |-> Pending]>>
          /\ pc' = "searching"
          /\ live' = NoLive
          /\ res' = NoRes

\* the tracks/source part of a route, once the request's mood m is known:
\* fetchLiveTracks with an access token, the fallback list without
Resolve(m, accessToken, route, useAI) ==
  IF accessToken # None /\ accessToken[1] # ""
  THEN StartLive(m, useAI, route)
  ELSE /\ mood' = Some(m)
       /\ attempts' = <<>>
       /\ calls' = <<>>
       /\ live' = NoLive
       /\ res' = JsonRes(200, getFallbackTracks(m.label), NoTokenTag(route))
       /\ pc' = "done"

\* fetchLiveTracks called on its own, with any mood and flag
FetchLiveTracks(accessToken, m, useAI) ==
  /\ pc \in {"idle", "done"}
  /\ req' = [route |-> "direct", accessToken |-> Some(accessToken), useAI |-> useAI,
             openaiKey |-> FALSE]
  /\ enrichCalls' = 0
  /\ enrichReply' = None
  /\ StartLive(m, useAI, "direct")
  /\ UNCHANGED <<storeVars, tokenVars, auxVars>>

\* mutant: when the last candidate gives nothing, the chain starts over
SearchReply_StartOver(outcome) ==
  /\ pc = "searching"
  /\ LET k == Len(calls)
         query == attempts[k]
         answered == [calls EXCEPT ![k].outcome = outcome]
         label == mood[1].label
     IN IF HasItems(outcome)
        THEN /\ calls' = answered
             /\ \E shuffled \in shuffle(Items(outcome.n)) :
                  Finish(LiveOk(query, takeTracks(shuffled), mood[1]), label, req.route)
        ELSE IF IsUnauthorized(outcome)
        THEN calls' = answered /\ Finish(TokenExpiredError, label, req.route)
        ELSE IF k < Len(attempts)
        THEN /\ calls' = Append(answered, [query |-> attempts[k + 1], outcome |-> Pending])
             /\ UNCHANGED <<pc, live, res>>
        ELSE /\ calls' = <<[query |-> attempts[1], outcome |-> Pending]>>
             /\ UNCHANGED <<pc, live, res>>
  /\ UNCHANGED <<req, mood, attempts, enrichCalls, enrichReply>>
  /\ UNCHANGED <<storeVars, tokenVars, auxVars>>

\* a search call completes: the loop body of fetchLiveTracks (lines 116-145)
\* and, when the loop ends, lines 147-149 and the caller's answer
SearchReply(outcome) ==
  /\ pc = "searching"
  /\ LET k == Len(calls)
         query == attempts[k]
         answered == [calls EXCEPT ![k].outcome = outcome]
         label == mood[1].label
     IN IF HasItems(outcome)
        THEN /\ calls' = answered
             /\ \E shuffled \in shuffle(Items(outcome.n)) :
                  Finish(LiveOk(query, takeTracks(shuffled), mood[1]), label, req.route)
        ELSE IF IsUnauthorized(outcome)
        THEN calls' = answered /\ Finish(TokenExpiredError, label, req.route)
        ELSE IF k < Len(attempts)
        THEN /\ calls' = Append(answered, [query |-> attempts[k + 1], outcome |-> Pending])
             /\ UNCHANGED <<pc, live, res>>
        ELSE calls' = answered /\ Finish(NoResultsError, label, req.route)
  /\ UNCHANGED <<req, mood, attempts, enrichCalls, enrichReply>>
  /\ UNCHANGED <<storeVars, tokenVars, auxVars>>

(***************************************************************************)
(* The playlist route (routes/playlistRoutes.js) and the AI playlist       *)
(* route (routes/aiPlaylistRoutes.js), one request at a time.              *)
(***************************************************************************)
\* the request ends before any collaborator is called
EndEarly(response) ==
  /\ res' = response
  /\ pc' = "done"
  /\ mood' = None
  /\ attempts' = <<>>
  /\ calls' = <<>>
  /\ live' = NoLive
  /\ enrichCalls' = 0
  /\ enrichReply' = None

\* the request awaits analyzeAndGeneratePlaylistParams
AwaitEnrichment(m) ==
  /\ pc' = "enriching"
  /\ enrichCalls' = 1
  /\ enrichReply' = None
  /\ mood' = m
  /\ attempts' = <<>>
  /\ calls' = <<>>
  /\ live' = NoLive
  /\ res' = NoRes

\* POST /api/playlists up to its first await (lines 8-23, or 8-65 when no
\* enrichment is attempted and no access token is given)
PlaylistRequest(accessToken, useAI, openaiKey) ==
  /\ pc \in {"idle", "done"}
  /\ req' = [route |-> "playlist", accessToken |-> accessToken, useAI |-> useAI,
             openaiKey |-> openaiKey]
  /\ IF moodSnapshot = None
     THEN EndEarly(JsonRes(400, <<>>, ""))
     ELSE IF useAI /\ openaiKey /\ getAggregatedMetrics(wearableData) # None
     THEN AwaitEnrichment(moodSnapshot)
     ELSE /\ enrichCalls' = 0
          /\ enrichReply' = None
          /\ Resolve(moodSnapshot[1], accessToken, "playlist", useAI)
  /\ UNCHANGED <<storeVars, tokenVars, auxVars>>

\* the mood the playlist route builds from the enrichment answer (lines 26-34)
enhanceMood(m, hints) ==
  [m EXCEPT !.searchQuery = Some(hints.searchQuery),
            !.seedGenres = Some(hints.genres),
            !.source = Some("openai")]

\* the mood the AI playlist route builds (line 62): a label and nothing else
labelOnlyMood(label) ==
  [label |-> label, score |-> 0, searchQuery |-> None, seedGenres |-> None,
   source |-> None]

\* the answer of the AI playlist route when there are no biometrics (lines 39-41)
MsgNoBiometrics ==
  "No biometric data available. Please sync wearable data first or provide biometricOverride."
NoBiometricsRes ==
  [kind |-> "json", status |-> 400, tracks |-> <<>>, source |-> "",
   message |-> MsgNoBiometrics]

AiPlaylistRequest_NoGuard(accessToken, biometricOverride, openaiKey) ==
  /\ pc \in {"idle", "done"}
  /\ req' = [route |-> "ai", accessToken |-> accessToken, useAI |-> TRUE,
             openaiKey |-> openaiKey, biometricOverride |-> biometricOverride]
  /\ IF ~openaiKey
     THEN EndEarly(ErrorRes)
     ELSE AwaitEnrichment(None)
  /\ UNCHANGED <<storeVars, tokenVars, auxVars>>

\* POST /api/ai-playlists up to its first await (lines 28-52)
AiPlaylistRequest(accessToken, biometricOverride, openaiKey) ==
  /\ pc \in {"idle", "done"}
  /\ req' = [route |-> "ai", accessToken |-> accessToken, useAI |-> TRUE,
             openaiKey |-> openaiKey, biometricOverride |-> biometricOverride]
  /\ IF ~biometricOverride /\ getAggregatedMetrics(wearableData) = None
     THEN EndEarly(NoBiometricsRes)
     ELSE IF ~openaiKey
     THEN EndEarly(ErrorRes)
     ELSE AwaitEnrichment(None)
  /\ UNCHANGED <<storeVars, tokenVars, auxVars>>

\* mutant: the playlist route writes the hints into the stored snapshot
EnrichSuccess_InPlace(rawMood, hints) ==
  /\ pc = "enriching"
  /\ IF req.route = "playlist"
     THEN /\ Resolve(enhanceMood(mood[1], hints), req.accessToken, "playlist", req.useAI)
          /\ moodSnapshot' = Some(enhanceMood(mood[1], hints))
     ELSE /\ Resolve(labelOnlyMood(validateMood(rawMood)), req.accessToken, "ai", TRUE)
          /\ moodSnapshot' = moodSnapshot
  /\ enrichReply' = Some([ok |-> TRUE, status |-> None])
  /\ UNCHANGED <<req, enrichCalls, wearableData>>
  /\ UNCHANGED <<tokenVars, auxVars>>

\* analyzeAndGeneratePlaylistParams answers
EnrichSuccess(rawMood, hints) ==
  /\ pc = "enriching"
  /\ IF req.route = "playlist"
     THEN Resolve(enhanceMood(mood[1], hints), req.accessToken, "playlist", req.useAI)
     ELSE Resolve(labelOnlyMood(validateMood(rawMood)), req.accessToken, "ai", TRUE)
  /\ enrichReply' = Some([ok |-> TRUE, status |-> None])
  /\ UNCHANGED <<req, enrichCalls>>
  /\ UNCHANGED <<storeVars, tokenVars, auxVars>>

EnrichFailure_Fatal(status) ==
  /\ pc = "enriching"
  /\ res' = ErrorRes
  /\ pc' = "done"
  /\ enrichReply' = Some([ok |-> FALSE, status |-> status])
  /\ UNCHANGED <<req, enrichCalls, mood, attempts, calls, live>>
  /\ UNCHANGED <<storeVars, tokenVars, auxVars>>

\* analyzeAndGeneratePlaylistParams throws: the playlist route goes on with
\* the heuristic mood (lines 37-40), the AI playlist route fails (line 90)
EnrichFailure(status) ==
  /\ pc = "enriching"
  /\ IF req.route = "playlist"
     THEN Resolve(mood[1], req.accessToken, "playlist", req.useAI)
     ELSE /\ res' = ErrorRes
          /\ pc' = "done"
          /\ UNCHANGED <<mood, attempts, calls, live>>
  /\ enrichReply' = Some([ok |-> FALSE, status |-> status])
  /\ UNCHANGED <<req, enrichCalls>>
  /\ UNCHANGED <<storeVars, tokenVars, auxVars>>

(***************************************************************************)
(* The wearable and mood routes (routes/wearableRoutes.js, moodRoutes.js)  *)
(* and the store's reset.                                                  *)
(***************************************************************************)
\* payloads synced: the four fixtures of the mood model's tests
Payloads ==
  {[readiness |-> Some(85), sleep |-> Some(80), hrv |-> Some(60), strain |-> Some(10),
    rhr |-> Some(55)],
   [readiness |-> Some(60), sleep |-> Some(70), hrv |-> Some(50), strain |-> Some(18),
    rhr |-> Some(60)],
   [readiness |-> Some(40), sleep |-> Some(50), hrv |-> Some(30), strain |-> Some(12),
    rhr |-> Some(65)],
   [readiness |-> Some(50), sleep |-> Some(50), hrv |-> Some(40), strain |-> Some(10),
    rhr |-> Some(60)]}

\* a payload in the provider's own shape that carries the metrics m
fixture(provider, m) ==
  IF provider = "oura"
  THEN Obj([readiness |-> Obj([score |-> Num(m.readiness[1]), hrv_balance |-> Num(m.hrv[1])]),
            sleep |-> Obj([score |-> Num(m.sleep[1]),
                           resting_heart_rate |-> Num(m.rhr[1])]),
            activity |-> Obj([strain |-> Num(m.strain[1])])])
  ELSE Obj([recovery |-> Obj([score |-> Num(m.readiness[1]), hrv |-> Num(m.hrv[1]),
                              resting_heart_rate |-> Num(m.rhr[1])]),
            sleep |-> Obj([score |-> Num(m.sleep[1])]),
            strain |-> Num(m.strain[1])])

\* the keys wearableData may get: setWearableData(provider, ...) is called
\* for every provider that normalize accepts
StoreKeys == Providers \cup {"constructor"}

\* provider ids and payloads of POST /sync: registered ids, an id with no
\* adapter, an inherited property name, no id; fixtures, and no payload
SyncProviders == Providers \cup {"fitbit", "constructor", ""}
\* payloads that carry some of the metrics only: a sleep score alone (read
\* by both adapters), and a recovery object with a score and an HRV of 0
PartialPayloads ==
  {Obj([sleep |-> Obj([score |-> Num(90)])]),
   Obj([recovery |-> Obj([score |-> Num(35), hrv |-> Num(0)])])}
SyncPayloads(provider) ==
  {fixture(provider, m) : m \in Payloads} \cup PartialPayloads \cup {Undefined, Null}

\* setMoodSnapshot(snapshot): a missing snapshot is ignored
setMoodSnapshot(current, snapshot) == IF snapshot = None THEN current ELSE snapshot

\* line 26: !provider || !payload
syncRejected(provider, payload) == provider = "" \/ ~IsTruthy(payload)

\* the store after POST /api/wearables/sync with a provider and a payload
\* (lines 30-41); a throw of normalize leaves the store untouched
syncedData_KeepFirst(data, provider, payload) ==
  IF syncRejected(provider, payload) \/ normalize(provider, payload).kind # "ok" THEN data
  ELSE IF data[provider] # None THEN data
  ELSE [data EXCEPT ![provider] = Some(normalize(provider, payload).value)]

syncedData(data, provider, payload) ==
  IF syncRejected(provider, payload) \/ normalize(provider, payload).kind # "ok" THEN data
  ELSE [data EXCEPT ![provider] = Some(normalize(provider, payload).value)]

syncedMood(current, provider, payload) ==
  IF syncRejected(provider, payload) \/ normalize(provider, payload).kind # "ok"
  THEN current
  ELSE setMoodSnapshot(current,
         inferMood(Some([sampleCount |-> 1, providers |-> {provider},
                         metrics |-> normalize(provider, payload).value.metrics])))

\* the application's error handler: const status = err.status || 500
errorStatus(thrown) == IF thrown.status = None THEN 500 ELSE thrown.status[1]

\* the response of POST /sync: 400 (line 27), the answer of the error
\* handler to the error handed to next (line 50), or the JSON answer (line 43)
syncResponse(provider, payload) ==
  IF syncRejected(provider, payload) THEN [kind |-> "json", status |-> 400]
  ELSE IF normalize(provider, payload).kind # "ok"
  THEN [kind |-> "error", status |-> errorStatus(normalize(provider, payload))]
  ELSE [kind |-> "json", status |-> 200]

\* POST /api/wearables/sync (wearableRoutes.js 22-52)
SyncWearable(provider, payload) ==
  /\ wearableData' = syncedData(wearableData, provider, payload)
  /\ moodSnapshot' = syncedMood(moodSnapshot, provider, payload)
  /\ wreq' = [route |-> "sync", pc |-> "done", provider |-> provider, payload |-> payload,
              res |-> syncResponse(provider, payload)]
  /\ UNCHANGED <<reqVars, tokenVars, oauth>>

\* the error inferMood throws for a missing aggregate (moodModel.js)
MsgNoMetrics == "No wearable data has been ingested yet."
NoMetricsError == [kind |-> "error", message |-> MsgNoMetrics, status |-> Some(400)]

\* the response of POST /run: the answer of the error handler to the error
\* handed to next (line 28), or the JSON answer (line 26)
runResponse(aggregated) ==
  IF inferMood(aggregated) = None
  THEN [kind |-> "error", status |-> errorStatus(NoMetricsError),
        message |-> NoMetricsError.message]
  ELSE [kind |-> "json", status |-> 200, mood |-> inferMood(aggregated)[1],
        aggregated |-> aggregated[1]]

RunMood_DefaultMood ==
  /\ moodSnapshot' =
       IF getAggregatedMetrics(wearableData) = None
       THEN Some(computeMood(buildFeatureVector([k \in MetricKeys |-> None])))
       ELSE inferMood(getAggregatedMetrics(wearableData))
  /\ wreq' = [route |-> "run", pc |-> "done", res |-> [kind |-> "json", status |-> 200]]
  /\ UNCHANGED <<wearableData, reqVars, tokenVars, oauth>>

\* POST /api/mood/run (moodRoutes.js 21-30)
RunMood ==
  /\ moodSnapshot' = setMoodSnapshot(moodSnapshot,
                                     inferMood(getAggregatedMetrics(wearableData)))
  /\ wreq' = [route |-> "run", pc |-> "done",
              res |-> runResponse(getAggregatedMetrics(wearableData))]
  /\ UNCHANGED <<wearableData, reqVars, tokenVars, oauth>>

ResetStore_KeepMood ==
  /\ wearableData' = [p \in StoreKeys |-> None]
  /\ UNCHANGED <<moodSnapshot, reqVars, tokenVars, auxVars>>

\* reset()
ResetStore ==
  /\ wearableData' = [p \in StoreKeys |-> None]
  /\ moodSnapshot' = None
  /\ UNCHANGED <<reqVars, tokenVars, auxVars>>

(***************************************************************************)
(* Whoop authorization routes (routes/wearableRoutes.js 185-243).  The     *)
(* strings the routes cut and join are sequences of characters.            *)
(***************************************************************************)
RECURSIVE Str(_)
\* the string of a sequence of characters
Str(chars) == IF chars = <<>> THEN "" ELSE chars[1] \o Str(Tail(chars))

\* String.prototype.substring(0, n)
substring0(chars, n) == SubSeq(chars, 1, Min(n, Len(chars)))

\* String.prototype.includes(sep), sep one character
includes(chars, sep) == \E k \in 1..Len(chars) : chars[k] = sep

RECURSIVE split(_, _)
\* String.prototype.split(sep), sep one character: the sequence of pieces
split(chars, sep) ==
  IF ~includes(chars, sep) THEN <<chars>>
  ELSE LET k == CHOOSE i \in 1..Len(chars) :
                  chars[i] = sep /\ \A j \in 1..(i - 1) : chars[j] # sep
       IN <<SubSeq(chars, 1, k - 1)>> \o split(SubSeq(chars, k + 1, Len(chars)), sep)

RECURSIVE join(_, _)
\* Array.prototype.join(sep)
join(pieces, sep) ==
  IF pieces = <<>> THEN <<>>
  ELSE IF Len(pieces) = 1 THEN pieces[1]
  ELSE pieces[1] \o <<sep>> \o join(Tail(pieces), sep)

\* the userId query parameters of GET /auth/whoop/login: absent, 'default',
\* a short id, an id with an underscore, an id of more than 7 characters
DefaultUserId == <<"d", "e", "f", "a", "u", "l", "t">>
LoginUserIds ==
  {None, Some(DefaultUserId), Some(<<"u", "2">>), Some(<<"a", "_", "b">>),
   Some(<<"l", "o", "n", "g", "u", "s", "e", "r", "1">>)}

\* values of generateState(): Math.random().toString(36).substring(2, 10),
\* up to 8 characters of 0-9 and a-z
GeneratedStates == {<<"k", "3", "x", "9", "q", "0", "z", "7">>, <<"i">>}

\* line 187: req.query.userId || 'default'
loginUserId(query) == IF query = None \/ query[1] = <<>> THEN DefaultUserId ELSE query[1]

\* line 190: generateState() + '_' + userId.substring(0, 7)
loginState(generated, userId) == generated \o <<"_">> \o substring0(userId, 7)

\* getAuthorizationUrl's stateValue (whoopService.js 26-29): a state of fewer
\* than 8 characters is replaced by a newly generated one
authorizationState(state, generated) == IF Len(state) < 8 THEN generated ELSE state

\* line 206: state.includes('_') ? state.split('_').slice(1).join('_') : 'default'
callbackUserId(state) ==
  IF includes(state, "_") THEN join(Tail(split(state, "_")), "_") ELSE DefaultUserId

\* the keys the token store may get
TokenKeys ==
  {"default", "u2"}
  \cup {Str(loginUserId(q)) : q \in LoginUserIds}
  \cup {Str(callbackUserId(authorizationState(loginState(g, loginUserId(q)), h))) :
          q \in LoginUserIds, g \in GeneratedStates, h \in GeneratedStates}

(***************************************************************************)
(* Whoop token lifecycle (services/whoopService.js).                       *)
(* Access and refresh tokens are numbered in the order the provider issues *)
(* them.  A call is one makeAuthenticatedRequest; its record keeps what    *)
(* the call read, sent and received.                                       *)
(***************************************************************************)
Users == {"default", "u2"}
Calls == {"c1", "c2"}

\* the calls of one fetchLatestData: getRecovery's request and its fallback
\* to the cycle endpoint, getSleep's and getWorkouts' requests
FetchCalls == {"recovery", "cycle", "sleep", "workout"}

\* Date.now() at process start; the clock is observed second by second
StartNow == 1000
TickSteps == {1000}

\* expires_in of a token response, in seconds: 5 minutes, and a second more
ExpiresIn == {300, 301}

\* HTTP status of an answered API request
RequestStatuses == {200, 401, 404, 500}

\* line 139: const buffer = 5 * 60 * 1000
buffer == 5 * 60 * 1000

\* messages of the errors thrown (lines 135, 142, 126, 215, 222)
MsgNoAccessToken == "No access token available. Please re-authenticate."
MsgNoRefreshToken == "Token expired and no refresh token available. Please re-authenticate."
MsgRefreshFailed == "Failed to refresh token"
MsgAuthFailed == "Authentication failed. Please re-authenticate."
MsgNotFound == "Whoop API endpoint not found"
MsgRequestFailed == "Request failed"

\* wearableRoutes.js line 97: the fetch route asks for re-authentication when
\* the message includes 'Authentication failed' or 'No access token'
requiresAuth(message) == message \in {MsgAuthFailed, MsgNoAccessToken}

Thrown(message, status) == [kind |-> "error", message |-> message, status |-> status,
                            token |-> 0]
Returned(token) == [kind |-> "ok", message |-> "", status |-> None, token |-> token]
NoResult == [kind |-> "none", message |-> "", status |-> None, token |-> 0]

IdleCall ==
  [pc |-> "idle", userId |-> "default", stored |-> None, at |-> 0, refreshes |-> <<>>,
   requests |-> <<>>, answers |-> <<>>, reply |-> None, gva |-> NoResult,
   result |-> NoResult]

\* exchangeCodeForToken's result for a token response (lines 75-82)
exchanged(access, refresh, expiresIn, t) ==
  [accessToken |-> access, refreshToken |-> refresh, expiresAt |-> t + expiresIn * 1000]

\* refreshAccessToken's result (lines 116-123): refresh_token || refreshToken
refreshedTokens(response, refreshToken, t) ==
  [accessToken |-> response.access_token,
   refreshToken |-> IF response.refresh_token # None THEN response.refresh_token
                    ELSE Some(refreshToken),
   expiresAt |-> t + response.expires_in * 1000]

\* line 134: !storedTokens || !storedTokens.accessToken (0: no access token)
hasAccessToken(storedTokens) == storedTokens # None /\ storedTokens[1].accessToken # 0

\* mutant: the buffer test with > for >=
needsRefresh_Strict(storedTokens, t) ==
  storedTokens.expiresAt # 0 /\ t > storedTokens.expiresAt - buffer

\* line 140: storedTokens.expiresAt && Date.now() >= storedTokens.expiresAt - buffer
needsRefresh(storedTokens, t) ==
  storedTokens.expiresAt # 0 /\ t >= storedTokens.expiresAt - buffer

\* the token response of a successful exchange or refresh; the tokens it
\* carries are new ones
TokenResponse(withAccess, withRefresh, expiresIn) ==
  [access_token |-> IF withAccess THEN issued + 1 ELSE 0,
   refresh_token |-> IF withRefresh THEN Some(issued + 1) ELSE None,
   expires_in |-> expiresIn]

\* GET /auth/whoop/callback with a code the provider accepts, for the user id
\* read from the state value (wearableRoutes.js 231-233): exchange and store
WhoopCallback(u, withAccess, withRefresh, expiresIn) ==
  /\ issued < MaxIssued
  /\ issued' = issued + 1
  /\ LET response == TokenResponse(withAccess, withRefresh, expiresIn)
     IN tokenStore' = [tokenStore EXCEPT ![u] =
          Some(exchanged(response.access_token, response.refresh_token,
                         response.expires_in, now))]
  /\ UNCHANGED <<now, tcall, storeVars, reqVars, auxVars>>

\* GET /auth/whoop/login (wearableRoutes.js 185-196): the redirect to the
\* provider carries the state value
WhoopLogin(query, generated, regenerated) ==
  /\ oauth' = Some([pc |-> "redirected",
                    userId |-> Str(loginUserId(query)),
                    state |-> authorizationState(loginState(generated, loginUserId(query)),
                                                 regenerated),
                    storedAs |-> None])
  /\ UNCHANGED <<tokenVars, wreq, storeVars, reqVars>>

\* GET /auth/whoop/callback with the state of the redirect and a code the
\* provider accepts (lines 198-237): exchange, and store under the user id
\* read from the state
WhoopCallbackOk(withAccess, withRefresh, expiresIn) ==
  /\ oauth # None /\ oauth[1].pc = "redirected"
  /\ issued < MaxIssued
  /\ issued' = issued + 1
  /\ LET response == TokenResponse(withAccess, withRefresh, expiresIn)
         userId == Str(callbackUserId(oauth[1].state))
     IN /\ tokenStore' = [tokenStore EXCEPT ![userId] =
             Some(exchanged(response.access_token, response.refresh_token,
                            response.expires_in, now))]
        /\ oauth' = Some([oauth[1] EXCEPT !.pc = "completed", !.storedAs = Some(userId)])
  /\ UNCHANGED <<now, tcall, wreq, storeVars, reqVars>>

\* the callback carries an error or no code, or the exchange fails (lines
\* 219-229, 238-242): nothing is stored
WhoopCallbackFailed ==
  /\ oauth # None /\ oauth[1].pc = "redirected"
  /\ oauth' = Some([oauth[1] EXCEPT !.pc = "failed"])
  /\ UNCHANGED <<tokenVars, wreq, storeVars, reqVars>>

\* time passes
Tick(d) ==
  /\ now + d <= StartNow + MaxTicks * 1000
  /\ now' = now + d
  /\ UNCHANGED <<tokenStore, tcall, issued, storeVars, reqVars, auxVars>>

\* the call sends a refresh request with the given refresh token; `by` is
\* the function that sends it
SendRefresh(call, refreshToken, by, nextPc) ==
  [call EXCEPT !.pc = nextPc,
               !.refreshes = Append(@, [refresh_token |-> refreshToken, by |-> by])]

\* the call sends the API request with the given access token
SendRequest(call, accessToken, nextPc) ==
  [call EXCEPT !.pc = nextPc, !.requests = Append(@, accessToken)]

\* the call ends with an error thrown out of makeAuthenticatedRequest
Fail(call, message, status) ==
  [call EXCEPT !.pc = "done", !.result = Thrown(message, status)]

\* mutant: the guard of line 134 is missing, the request goes out without
\* an access token
getValidAccessToken_NoGuard(call, storedTokens, t) ==
  IF ~hasAccessToken(storedTokens)
  THEN [SendRequest(call, 0, "requesting") EXCEPT !.gva = Returned(0)]
  ELSE IF needsRefresh(storedTokens[1], t) /\ storedTokens[1].refreshToken # None
  THEN SendRefresh(call, storedTokens[1].refreshToken[1], "getValidAccessToken",
                   "refreshing")
  ELSE [SendRequest(call, storedTokens[1].accessToken, "requesting") EXCEPT
          !.gva = Returned(storedTokens[1].accessToken)]

\* mutant: inside the buffer, a record without a refresh token gives its
\* stored access token
getValidAccessToken_StaleToken(call, storedTokens, t) ==
  IF ~hasAccessToken(storedTokens)
  THEN [Fail(call, MsgNoAccessToken, None) EXCEPT !.gva = Thrown(MsgNoAccessToken, None)]
  ELSE IF needsRefresh(storedTokens[1], t) /\ storedTokens[1].refreshToken # None
  THEN SendRefresh(call, storedTokens[1].refreshToken[1], "getValidAccessToken",
                   "refreshing")
  ELSE [SendRequest(call, storedTokens[1].accessToken, "requesting") EXCEPT
          !.gva = Returned(storedTokens[1].accessToken)]

\* getValidAccessToken(userId, storedTokens) up to its first await or its
\* end (lines 133-152), for a call record that has read the store
getValidAccessToken(call, storedTokens, t) ==
  IF ~hasAccessToken(storedTokens)
  THEN [Fail(call, MsgNoAccessToken, None) EXCEPT !.gva = Thrown(MsgNoAccessToken, None)]
  ELSE IF needsRefresh(storedTokens[1], t)
  THEN IF storedTokens[1].refreshToken = None
       THEN [Fail(call, MsgNoRefreshToken, None) EXCEPT
               !.gva = Thrown(MsgNoRefreshToken, None)]
       ELSE SendRefresh(call, storedTokens[1].refreshToken[1], "getValidAccessToken",
                        "refreshing")
  ELSE [SendRequest(call, storedTokens[1].accessToken, "requesting") EXCEPT
          !.gva = Returned(storedTokens[1].accessToken)]

\* makeAuthenticatedRequest(userId, ...) up to its first await (lines 157-180)
CallStart(c, u) ==
  /\ tcall[c].pc \in {"idle", "done"}
  /\ tcall' = [tcall EXCEPT ![c] =
       getValidAccessToken([IdleCall EXCEPT !.userId = u, !.stored = tokenStore[u],
                                            !.at = now],
                           tokenStore[u], now)]
  /\ UNCHANGED <<tokenStore, now, issued, storeVars, reqVars, auxVars>>

\* mutant: the refreshed tokens are stored under the default user id
RefreshOk_DefaultUser(c, withRefresh, expiresIn) ==
  /\ tcall[c].pc \in {"refreshing", "retryRefreshing"}
  /\ issued < MaxIssued
  /\ issued' = issued + 1
  /\ LET call == tcall[c]
         response == TokenResponse(TRUE, withRefresh, expiresIn)
         refreshed == refreshedTokens(response,
                                      call.refreshes[Len(call.refreshes)].refresh_token, now)
         stored == [call EXCEPT !.reply = Some(response)]
     IN /\ tokenStore' = [tokenStore EXCEPT !["default"] = Some(refreshed)]
        /\ tcall' = [tcall EXCEPT ![c] =
             IF call.pc = "refreshing"
             THEN [SendRequest(stored, refreshed.accessToken, "requesting") EXCEPT
                     !.gva = Returned(refreshed.accessToken)]
             ELSE SendRequest(stored, refreshed.accessToken, "retrying")]
  /\ UNCHANGED <<now, storeVars, reqVars, auxVars>>

\* the refresh request is answered with new tokens: getValidAccessToken stores
\* them and returns (lines 145-148) and the request is sent, or the 401 branch
\* stores them and retries the request (lines 194-212)
RefreshOk(c, withRefresh, expiresIn) ==
  /\ tcall[c].pc \in {"refreshing", "retryRefreshing"}
  /\ issued < MaxIssued
  /\ issued' = issued + 1
  /\ LET call == tcall[c]
         response == TokenResponse(TRUE, withRefresh, expiresIn)
         refreshed == refreshedTokens(response,
                                      call.refreshes[Len(call.refreshes)].refresh_token, now)
         stored == [call EXCEPT !.reply = Some(response)]
     IN /\ tokenStore' = [tokenStore EXCEPT ![call.userId] = Some(refreshed)]
        /\ tcall' = [tcall EXCEPT ![c] =
             IF call.pc = "refreshing"
             THEN [SendRequest(stored, refreshed.accessToken, "requesting") EXCEPT
                     !.gva = Returned(refreshed.accessToken)]
             ELSE SendRequest(stored, refreshed.accessToken, "retrying")]
  /\ UNCHANGED <<now, storeVars, reqVars, auxVars>>

RefreshFail_DropRecord(c) ==
  /\ tcall[c].pc \in {"refreshing", "retryRefreshing"}
  /\ tcall' = [tcall EXCEPT ![c] =
       IF tcall[c].pc = "refreshing"
       THEN [Fail(tcall[c], MsgRefreshFailed, None) EXCEPT
               !.gva = Thrown(MsgRefreshFailed, None)]
       ELSE Fail(tcall[c], MsgAuthFailed, None)]
  /\ tokenStore' = [tokenStore EXCEPT ![tcall[c].userId] = None]
  /\ UNCHANGED <<now, issued, storeVars, reqVars, auxVars>>

RefreshFail_ClearRefreshToken(c) ==
  /\ tcall[c].pc \in {"refreshing", "retryRefreshing"}
  /\ tcall' = [tcall EXCEPT ![c] =
       IF tcall[c].pc = "refreshing"
       THEN [Fail(tcall[c], MsgRefreshFailed, None) EXCEPT
               !.gva = Thrown(MsgRefreshFailed, None)]
       ELSE Fail(tcall[c], MsgAuthFailed, None)]
  /\ tokenStore' = [tokenStore EXCEPT ![tcall[c].userId] =
                      Some([tokenStore[tcall[c].userId][1] EXCEPT !.refreshToken = None])]
  /\ UNCHANGED <<now, issued, storeVars, reqVars, auxVars>>

\* the refresh request fails: refreshAccessToken throws (lines 124-127), out of
\* getValidAccessToken, or into the catch of line 214
RefreshFail(c) ==
  /\ tcall[c].pc \in {"refreshing", "retryRefreshing"}
  /\ tcall' = [tcall EXCEPT ![c] =
       IF tcall[c].pc = "refreshing"
       THEN [Fail(tcall[c], MsgRefreshFailed, None) EXCEPT
               !.gva = Thrown(MsgRefreshFailed, None)]
       ELSE Fail(tcall[c], MsgAuthFailed, None)]
  /\ UNCHANGED <<tokenStore, now, issued, storeVars, reqVars, auxVars>>

\* the call receives the HTTP status of an answer to its API request
Answer(call, status) == [call EXCEPT !.answers = Append(@, status)]

\* mutant: every failed request with a refresh token at hand is refreshed
RequestReply_RefreshOnAnyFailure(c, status) ==
  /\ tcall[c].pc = "requesting"
  /\ LET call == Answer(tcall[c], status)
     IN tcall' = [tcall EXCEPT ![c] =
          IF status = 200 THEN [call EXCEPT !.pc = "done", !.result = Returned(0)]
          ELSE IF call.stored[1].refreshToken # None
          THEN SendRefresh(call, call.stored[1].refreshToken[1],
                           "makeAuthenticatedRequest", "retryRefreshing")
          ELSE IF status = 404 THEN Fail(call, MsgNotFound, None)
          ELSE Fail(call, MsgRequestFailed, Some(status))]
  /\ UNCHANGED <<tokenStore, now, issued, storeVars, reqVars, auxVars>>

\* the API request is answered (lines 180-226)
RequestReply(c, status) ==
  /\ tcall[c].pc = "requesting"
  /\ LET call == Answer(tcall[c], status)
     IN tcall' = [tcall EXCEPT ![c] =
          IF status = 200 THEN [call EXCEPT !.pc = "done", !.result = Returned(0)]
          ELSE IF status = 401 /\ call.stored[1].refreshToken # None
          THEN SendRefresh(call, call.stored[1].refreshToken[1],
                           "makeAuthenticatedRequest", "retryRefreshing")
          ELSE IF status = 404 THEN Fail(call, MsgNotFound, None)
          ELSE Fail(call, MsgRequestFailed, Some(status))]
  /\ UNCHANGED <<tokenStore, now, issued, storeVars, reqVars, auxVars>>

\* mutant: a retried request answered 401 is sent once more
RetryReply_RetryAgain(c, status) ==
  /\ tcall[c].pc = "retrying"
  /\ tcall' = [tcall EXCEPT ![c] =
       IF status = 200
       THEN [Answer(tcall[c], status) EXCEPT !.pc = "done", !.result = Returned(0)]
       ELSE IF status = 401 /\ Len(tcall[c].requests) < 3
       THEN SendRequest(Answer(tcall[c], status), tcall[c].requests[2], "retrying")
       ELSE Fail(Answer(tcall[c], status), MsgAuthFailed, None)]
  /\ UNCHANGED <<tokenStore, now, issued, storeVars, reqVars, auxVars>>

\* the retried request is answered (lines 212-216): any failure is caught
RetryReply(c, status) ==
  /\ tcall[c].pc = "retrying"
  /\ tcall' = [tcall EXCEPT ![c] =
       IF status = 200
       THEN [Answer(tcall[c], status) EXCEPT !.pc = "done", !.result = Returned(0)]
       ELSE Fail(Answer(tcall[c], status), MsgAuthFailed, None)]
  /\ UNCHANGED <<tokenStore, now, issued, storeVars, reqVars, auxVars>>

(***************************************************************************)
(* POST /api/wearables/whoop/fetch (wearableRoutes.js 58-105) and          *)
(* fetchLatestData (whoopService.js 386-429).                              *)
(***************************************************************************)
\* the metrics of the records the Whoop API answers with
WhoopApiData == [readiness |-> 85, sleep |-> 80, hrv |-> 60, strain |-> 10, rhr |-> 55]

\* a makeAuthenticatedRequest call for the user at its first await
startedCall(u) ==
  getValidAccessToken([IdleCall EXCEPT !.userId = u, !.stored = tokenStore[u], !.at = now],
                      tokenStore[u], now)

\* the call ended with data, or with an error
Fulfilled(call) == call.pc = "done" /\ call.result.kind = "ok"
Rejected(call) == call.pc = "done" /\ call.result.kind = "error"

\* getRecovery's catch (lines 276-280): the cycle request is due
cycleDue == Rejected(tcall["recovery"]) /\ tcall["cycle"].pc = "idle"

\* Promise.allSettled has all three results (line 388)
allSettled ==
  /\ Fulfilled(tcall["recovery"]) \/ (Rejected(tcall["recovery"]) /\ tcall["cycle"].pc = "done")
  /\ tcall["sleep"].pc = "done"
  /\ tcall["workout"].pc = "done"

\* the payload fetchLatestData builds (lines 395-422): a rejected getRecovery
\* or getSleep leaves {}, a failed getWorkouts leaves null
fetchPayload ==
  LET recoveryData == Fulfilled(tcall["recovery"]) \/ Fulfilled(tcall["cycle"])
      sleepData == Fulfilled(tcall["sleep"])
      workoutData == Fulfilled(tcall["workout"])
  IN Obj([recovery |-> IF recoveryData
                       THEN Obj([score |-> Num(WhoopApiData.readiness),
                                 hrv |-> Num(WhoopApiData.hrv),
                                 heart_rate_variability |-> Num(WhoopApiData.hrv),
                                 resting_heart_rate |-> Num(WhoopApiData.rhr)])
                       ELSE Obj(<<>>),
          sleep |-> IF sleepData
                    THEN Obj([score |-> Num(WhoopApiData.sleep),
                              quality_score |-> Num(WhoopApiData.sleep)])
                    ELSE Obj(<<>>),
          strain |-> IF workoutData THEN Num(WhoopApiData.strain) ELSE Null,
          training_load |-> IF workoutData THEN Obj([strain |-> Num(WhoopApiData.strain)])
                            ELSE Null])

\* the answers of the route: 401 with the login URL (lines 65-68, 98-101),
\* or the JSON answer (line 88)
AuthRequiredRes == [kind |-> "json", status |-> 401, authUrl |-> TRUE]
FetchedRes == [kind |-> "json", status |-> 200, authUrl |-> FALSE]

\* the handler up to its await of fetchLatestData (lines 60-72): without a
\* stored access token it answers 401; else the three requests start, each
\* reading the token store
FetchStart(u) ==
  /\ wreq.pc \in {"idle", "done"}
  /\ IF ~hasAccessToken(tokenStore[u])
     THEN /\ wreq' = [route |-> "fetch", pc |-> "done", userId |-> u,
                      res |-> AuthRequiredRes]
          /\ tcall' = tcall
     ELSE /\ wreq' = [route |-> "fetch", pc |-> "fetching", userId |-> u, res |-> NoRes]
          /\ tcall' = [c \in DOMAIN tcall |->
                         IF c \in {"recovery", "sleep", "workout"} THEN startedCall(u)
                         ELSE IF c = "cycle" THEN IdleCall
                         ELSE tcall[c]]
  /\ UNCHANGED <<tokenStore, now, issued, oauth, storeVars, reqVars>>

\* getRecovery's first request failed: the cycle request starts (line 280)
FetchCycleFallback ==
  /\ wreq.route = "fetch" /\ wreq.pc = "fetching"
  /\ cycleDue
  /\ tcall' = [tcall EXCEPT !["cycle"] = startedCall(wreq.userId)]
  /\ UNCHANGED <<tokenStore, now, issued, auxVars, storeVars, reqVars>>

\* all three have settled: the payload is normalized and stored, the mood
\* is inferred and stored, and the route answers (lines 72-95)
FetchFinish ==
  /\ wreq.route = "fetch" /\ wreq.pc = "fetching"
  /\ ~cycleDue /\ allSettled
  /\ wearableData' = syncedData(wearableData, "whoop", fetchPayload)
  /\ moodSnapshot' = syncedMood(moodSnapshot, "whoop", fetchPayload)
  /\ wreq' = [wreq EXCEPT !.pc = "done", !.res = FetchedRes]
  /\ UNCHANGED <<tokenVars, oauth, reqVars>>

\* a continuation of the fetch is ready to run; it runs before the next
\* answer from the network is handled
fetchContinues ==
  wreq.route = "fetch" /\ wreq.pc = "fetching" /\ (cycleDue \/ allSettled)

TokenInit ==
  /\ tokenStore = [u \in TokenKeys |-> None]
  /\ now = StartNow
  /\ tcall = [c \in Calls \cup FetchCalls |-> IdleCall]
  /\ issued = 0

(***************************************************************************)
(* Specification of the playlist pipeline: the store holds nothing or one  *)
(* synced sample, and playlist requests are served one after the other.    *)
(***************************************************************************)
StoreInit ==
  /\ wearableData = [p \in StoreKeys |-> None]
  /\ moodSnapshot = None

\* no authorization redirect and no wearable route request in flight
NoWreq == [route |-> "none", pc |-> "idle"]

AuxInit ==
  /\ oauth = None
  /\ wreq = NoWreq

ReqInit ==
  /\ pc = "idle"
  /\ req = NoReq
  /\ mood = None
  /\ attempts = <<>>
  /\ calls = <<>>
  /\ enrichCalls = 0
  /\ enrichReply = None
  /\ live = NoLive
  /\ res = NoRes

\* the store as one sync of a Whoop payload leaves it
StoreSynced ==
  \E payload \in Payloads :
    /\ wearableData = syncedData([p \in StoreKeys |-> None], "whoop",
                                 fixture("whoop", payload))
    /\ moodSnapshot = syncedMood(None, "whoop", fixture("whoop", payload))

Init == (StoreInit \/ StoreSynced) /\ ReqInit /\ TokenInit /\ AuxInit

Next ==
  \/ \E t \in AccessTokens, useAI \in BOOLEAN, key \in BOOLEAN : PlaylistRequest(t, useAI, key)
  \/ \E t \in AccessTokens, override \in BOOLEAN, key \in BOOLEAN :
       AiPlaylistRequest(t, override, key)
  \/ \E m \in RawMoods, h \in EnrichHints : EnrichSuccess(m, h)
  \/ \E st \in EnrichErrorStatuses : EnrichFailure(st)
  \/ \E o \in SearchOutcomes : SearchReply(o)

Spec == Init /\ [][Next]_vars

(***************************************************************************)
(* Specification of fetchLiveTracks on its own: any mood, with or without  *)
(* enrichment hints, and either value of useAI.                            *)
(***************************************************************************)
\* hints a mood may carry: none, or those of an enrichment answer, among them
\* a search string equal to a preset query and one equal to a label
DirectHints ==
  {[searchQuery |-> None, seedGenres |-> None]}
  \cup {[searchQuery |-> Some(h.searchQuery), seedGenres |-> Some(h.genres)] :
          h \in EnrichHints}
  \cup {[searchQuery |-> Some("flow"), seedGenres |-> Some(<<>>)]}
DirectLabels == {"flow", "party"}
DirectMoods ==
  {[label |-> l, score |-> 0, searchQuery |-> h.searchQuery, seedGenres |-> h.seedGenres,
    source |-> None] : l \in DirectLabels, h \in DirectHints}

ResolveNext ==
  \/ \E m \in DirectMoods, useAI \in BOOLEAN : FetchLiveTracks("spotify-token", m, useAI)
  \/ \E o \in SearchOutcomes : SearchReply(o)

InitResolve == StoreInit /\ ReqInit /\ TokenInit /\ AuxInit

SpecResolve == InitResolve /\ [][ResolveNext]_vars

(***************************************************************************)
(* Specification of the store: syncs, mood runs and resets.                *)
(***************************************************************************)
StoreNext ==
  \/ \E p \in SyncProviders : \E payload \in SyncPayloads(p) : SyncWearable(p, payload)
  \/ RunMood
  \/ ResetStore

InitStore == StoreInit /\ ReqInit /\ TokenInit /\ AuxInit

SpecStore == InitStore /\ [][StoreNext]_vars

(***************************************************************************)
(* Properties of the track resolution pipeline.                            *)
(***************************************************************************)
Answered(k) == calls[k].outcome.kind # "pending"
Empty(k) == calls[k].outcome.kind = "ok" /\ calls[k].outcome.n = 0
Found(k) == calls[k].outcome.kind = "ok" /\ calls[k].outcome.n > 0
Unauthorized(k) == calls[k].outcome.kind = "error" /\ calls[k].outcome.status = Some(401)
OtherFailure(k) == calls[k].outcome.kind = "error" /\ calls[k].outcome.status # Some(401)
InOrder == \A k \in 1..Len(calls) : k <= Len(attempts) /\ calls[k].query = attempts[k]
TokenGiven == req.accessToken # None /\ req.accessToken[1] # ""
StaticList(label) ==
  CASE label = "flow" -> <<"flow-1", "flow-2">>
    [] label = "amped" -> <<"amped-1", "amped-2">>
    [] label = "recovery" -> <<"recovery-1", "recovery-2">>
    [] OTHER -> <<"reset-1", "reset-2">>

\* C1: a search call answered 401 is the last search call of its resolve, and
\* the resolve has then failed with the token-expired error (status 401); so
\* a 401 on the first candidate means exactly one search call.
C1_UnauthorizedAborts ==
  \A k \in 1..Len(calls) :
    Unauthorized(k) =>
      /\ k = Len(calls)
      /\ pc = "done"
      /\ live.kind = "error" /\ live.status = 401
      /\ InOrder

C1_Witness ==
  /\ Len(calls) = 1
  /\ Len(attempts) > 1
  /\ Unauthorized(1)
  /\ live.kind = "error" /\ live.status = 401

\* C2: when candidates 1..k-1 answered empty and candidate k answered r > 0
\* raw items, exactly k search calls were made, in candidate order, and the
\* resolve returned min(r, 20) tracks.
C2_StopsAtFirstResult ==
  \A k \in 1..Len(calls) :
    (Found(k) /\ \A j \in 1..(k - 1) : Empty(j)) =>
      /\ Len(calls) = k
      /\ InOrder
      /\ pc = "done"
      /\ live.kind = "ok"
      /\ live.query = attempts[k]
      /\ Len(live.tracks) = (IF calls[k].outcome.n < 20 THEN calls[k].outcome.n ELSE 20)
      /\ Len(live.tracks) <= 20
      /\ (req.route # "direct" => res.tracks = live.tracks)

C2_Witness ==
  /\ Len(calls) = 4
  /\ Len(attempts) > 4
  /\ Empty(1) /\ Empty(2) /\ Empty(3)
  /\ calls[4].outcome.kind = "ok" /\ calls[4].outcome.n = 21
  /\ Len(live.tracks) = 20
  /\ live.source = "spotify-search"

\* C3: a search call that failed with anything but 401 does not end the
\* resolve: the next candidate, if there is one, has been searched, and a
\* later candidate with a non-empty result makes the resolve succeed; after
\* such a failure of the last candidate the resolve ends with the no-results
\* error, not with the token-expired one.
C3_OtherFailuresContinue ==
  \A k \in 1..Len(calls) :
    OtherFailure(k) =>
      /\ k < Len(attempts) => (Len(calls) > k /\ calls[k + 1].query = attempts[k + 1])
      /\ k = Len(attempts) => (pc = "done" /\ live.kind = "error" /\ live.status = 502)
      /\ \A j \in (k + 1)..Len(calls) :
           Found(j) => (pc = "done" /\ live.kind = "ok" /\ live.query = attempts[j])

C3_Witness ==
  /\ Len(calls) = 3
  /\ calls[1].outcome.kind = "error" /\ calls[1].outcome.status = Some(429)
  /\ calls[2].outcome.kind = "error" /\ calls[2].outcome.status = None
  /\ Found(3)
  /\ live.kind = "ok"
  /\ res.status = 200 /\ res.tracks = live.tracks

C5_AlwaysSomeTracks ==
  (pc = "done" /\ req.route = "playlist" /\ moodSnapshot # None) =>
    /\ res.kind = "json" /\ res.status = 200
    /\ Len(res.tracks) > 0
    /\ \/ live.kind = "ok" /\ res.tracks = live.tracks /\ res.source = live.source
       \/ /\ live.kind # "ok"
          /\ res.tracks = StaticList(moodSnapshot[1].label)
          /\ res.source = "fallback"

C5_Witness ==
  /\ pc = "done"
  /\ req.route = "playlist"
  /\ moodSnapshot # None
  /\ enrichCalls = 1 /\ mood[1].source = None
  /\ live.kind = "error" /\ live.status = 401
  /\ res.status = 200 /\ res.tracks = StaticList(moodSnapshot[1].label)

\* C6: when every candidate has been searched and each answered empty, the
\* resolve has failed with the no-results error (status 502) after one
\* search call per candidate, and the route has answered with the static
\* list of the mood's label and the source "fallback".
C6_ExhaustedIsNoResults ==
  (Len(calls) = Len(attempts) /\ Len(calls) > 0 /\ \A k \in 1..Len(calls) : Empty(k)) =>
    /\ pc = "done"
    /\ live.kind = "error" /\ live.status = 502
    /\ InOrder
    /\ (req.route # "direct" =>
          /\ res.kind = "json" /\ res.status = 200
          /\ res.tracks = StaticList(mood[1].label)
          /\ res.source = "fallback")

C6_Witness ==
  /\ Len(attempts) = 6
  /\ Len(calls) = 6
  /\ \A k \in 1..6 : Empty(k)
  /\ live.status = 502
  /\ res.source = "fallback"

\* the candidates the enrichment hints contribute, as C7 and C8 count them
Step1 ==
  IF req.useAI /\ mood[1].searchQuery # None /\ mood[1].searchQuery[1] # ""
  THEN <<mood[1].searchQuery[1]>> ELSE <<>>
Step2 ==
  IF req.useAI /\ mood[1].seedGenres # None /\ Len(mood[1].seedGenres[1]) > 0
  THEN <<Join(mood[1].seedGenres[1], " ") \o " " \o mood[1].label>> ELSE <<>>
Step3 ==
  IF mood[1].label \in MoodLabels THEN MOOD_PRESETS[mood[1].label] ELSE MOOD_PRESETS.reset

\* C7: the candidate list of a resolve is the enrichment search string (if
\* useAI and the string is non-empty), then the genres joined with the label
\* (if useAI and there are genres), then the three preset queries, then the
\* label; the search calls follow it in order, so without useAI every call
\* is for a preset query or the label.
C7_CandidateOrder ==
  (pc \in {"searching", "done"} /\ TokenGiven /\ mood # None) =>
    /\ attempts = Step1 \o Step2 \o Step3 \o <<mood[1].label>>
    /\ Len(Step3) = 3
    /\ InOrder
    /\ ~req.useAI =>
         \A k \in 1..Len(calls) :
           \E i \in 1..4 : calls[k].query = (Step3 \o <<mood[1].label>>)[i]

C7_Witness ==
  /\ Len(calls) = 6
  /\ attempts = <<"lofi beats", "ambient piano flow", "\"deep focus\"",
                  "chill instrumental", "ambient focus", "flow">>
  /\ \A k \in 1..6 : calls[k].query = attempts[k] /\ Answered(k)

\* C8 (as claimed): a successful resolve carries the tag "openai-search"
\* exactly when the candidate that produced the result is one of the
\* enrichment candidates (step 1 or 2), and "spotify-search" otherwise.
C8_TagByOrigin ==
  (pc = "done" /\ live.kind = "ok") =>
    IF Len(calls) <= Len(Step1 \o Step2)
    THEN live.source = "openai-search"
    ELSE live.source = "spotify-search"

(***************************************************************************)
(* Specification of the token lifecycle, one call at a time.               *)
(***************************************************************************)
TokenNext ==
  \/ \E u \in Users, withAccess \in BOOLEAN, withRefresh \in BOOLEAN, e \in ExpiresIn :
       WhoopCallback(u, withAccess, withRefresh, e)
  \/ \E d \in TickSteps : Tick(d)
  \/ \E u \in Users : CallStart("c1", u)
  \/ \E withRefresh \in BOOLEAN, e \in ExpiresIn : RefreshOk("c1", withRefresh, e)
  \/ RefreshFail("c1")
  \/ \E st \in RequestStatuses : RequestReply("c1", st)
  \/ \E st \in RequestStatuses : RetryReply("c1", st)

InitToken == StoreInit /\ ReqInit /\ TokenInit /\ AuxInit

SpecToken == InitToken /\ [][TokenNext]_vars

(***************************************************************************)
(* Properties of the token lifecycle.                                      *)
(***************************************************************************)
\* the refreshes a call's getValidAccessToken has sent
gvaRefreshes(call) ==
  SelectSeq(call.refreshes, LAMBDA r : r.by = "getValidAccessToken")

\* a step that starts call c
Starts(c) == tcall[c].pc \in {"idle", "done"} /\ tcall'[c] # tcall[c]

\* C9: a call started for a user with no token record, or with a record
\* without an access token, ends at once with the error that asks for
\* re-authentication; no refresh and no API request is sent, and the token
\* store is left as it was.
C9_NoTokenNeedsReauth ==
  [][\A c \in Calls :
       (Starts(c) /\ ~hasAccessToken(tokenStore[tcall'[c].userId])) =>
         /\ tcall'[c].pc = "done"
         /\ tcall'[c].gva = Thrown(MsgNoAccessToken, None)
         /\ tcall'[c].result = tcall'[c].gva
         /\ requiresAuth(tcall'[c].result.message)
         /\ tcall'[c].refreshes = <<>>
         /\ tcall'[c].requests = <<>>
         /\ tokenStore' = tokenStore
         /\ issued' = issued]_vars

C9_Witness ==
  /\ tcall["c1"].pc = "done"
  /\ tcall["c1"].userId = "default"
  /\ tcall["c1"].stored = None
  /\ tcall["c1"].gva = Thrown(MsgNoAccessToken, None)
  /\ tcall["c1"].refreshes = <<>> /\ tcall["c1"].requests = <<>>
  /\ tokenStore["default"] = None
  /\ tokenStore["u2"] # None

\* the time the call read lies in the buffer of the record it read
InBuffer(call) == call.at >= call.stored[1].expiresAt - 5 * 60 * 1000

\* C10 (as claimed): getValidAccessToken sends a refresh exactly when the
\* current time is at or past expiresAt minus 5 minutes.
C10_RefreshIffInBuffer ==
  \A c \in Calls :
    (tcall[c].pc # "idle" /\ hasAccessToken(tcall[c].stored)) =>
      (gvaRefreshes(tcall[c]) # <<>> <=> InBuffer(tcall[c]))

\* C10 (amended): getValidAccessToken sends a refresh exactly when the time
\* is at or past expiresAt minus 5 minutes and the record has a refresh
\* token; it sends one refresh, with the record's refresh token, and when
\* the refresh succeeds the stored record is replaced by the new access
\* token and expiry, with the response's refresh token or, if it carries
\* none, the old one, and the new access token is returned.  Outside the
\* buffer the stored access token is returned, no refresh is sent and the
\* record is unchanged.
C10_RefreshInBufferWithRefreshToken ==
  [][\A c \in Calls :
       LET old == tcall[c]
           new == tcall'[c]
           u == new.userId
       IN /\ Len(gvaRefreshes(new)) <= 1
          /\ (Starts(c) /\ hasAccessToken(tokenStore[u])) =>
               LET rec == tokenStore[u][1]
               IN /\ tokenStore' = tokenStore
                  /\ IF InBuffer(new) /\ rec.refreshToken # None
                     THEN /\ new.pc = "refreshing"
                          /\ new.refreshes = <<[refresh_token |-> rec.refreshToken[1],
                                                by |-> "getValidAccessToken"]>>
                          /\ new.requests = <<>>
                     ELSE new.refreshes = <<>>
                  /\ ~InBuffer(new) =>
                       /\ new.gva = Returned(rec.accessToken)
                       /\ new.requests = <<rec.accessToken>>
          /\ (old.pc = "refreshing" /\ new.pc = "requesting") =>
               LET response == new.reply[1]
                   rec == old.stored[1]
               IN /\ tokenStore'[u] =
                       Some([accessToken |-> response.access_token,
                             refreshToken |-> IF response.refresh_token = None
                                              THEN rec.refreshToken
                                              ELSE response.refresh_token,
                             expiresAt |-> now + response.expires_in * 1000])
                  /\ \A v \in Users \ {u} : tokenStore'[v] = tokenStore[v]
                  /\ response.access_token # rec.accessToken
                  /\ new.gva = Returned(response.access_token)
                  /\ new.requests = <<response.access_token>>
                  /\ Len(gvaRefreshes(new)) = 1]_vars

C10_Witness ==
  /\ tcall["c1"].pc = "requesting"
  /\ tcall["c1"].at = tcall["c1"].stored[1].expiresAt - 5 * 60 * 1000
  /\ Len(gvaRefreshes(tcall["c1"])) = 1
  /\ tcall["c1"].reply # None /\ tcall["c1"].reply[1].refresh_token = None
  /\ tokenStore[tcall["c1"].userId] # None
  /\ tokenStore[tcall["c1"].userId][1].refreshToken = tcall["c1"].stored[1].refreshToken
  /\ tokenStore[tcall["c1"].userId][1].accessToken = tcall["c1"].gva.token
  /\ tcall["c1"].gva.token # tcall["c1"].stored[1].accessToken

\* the refreshes a call's makeAuthenticatedRequest has sent after a 401
marRefreshes(call) ==
  SelectSeq(call.refreshes, LAMBDA r : r.by = "makeAuthenticatedRequest")

\* the errors with which the token lifecycle itself gives up; a failure of
\* the API request that is passed on keeps its HTTP status instead
IsReauthRequired(result) ==
  /\ result.kind = "error"
  /\ result.status = None
  /\ result.message \in {MsgNoAccessToken, MsgNoRefreshToken, MsgRefreshFailed,
                         MsgAuthFailed}

\* C11: a call whose getValidAccessToken finds the token inside the expiry
\* buffer never gets the stored access token back and never sends it; if
\* the record has no refresh token, or the refresh request fails, the call
\* ends there with a re-authentication error and sends no API request.
C11_NoStaleTokenInBuffer ==
  [][\A c \in Calls :
       LET old == tcall[c]
           new == tcall'[c]
       IN (new.pc # "idle" /\ hasAccessToken(new.stored) /\ InBuffer(new)) =>
            /\ new.gva # Returned(new.stored[1].accessToken)
            /\ \A k \in 1..Len(new.requests) :
                 new.requests[k] # new.stored[1].accessToken
            /\ new.stored[1].refreshToken = None =>
                 /\ new.pc = "done"
                 /\ new.gva = Thrown(MsgNoRefreshToken, None)
                 /\ new.result = new.gva /\ IsReauthRequired(new.result)
                 /\ new.refreshes = <<>> /\ new.requests = <<>>
            /\ (old.pc = "refreshing" /\ new # old /\ new.reply = None) =>
                 /\ new.pc = "done"
                 /\ new.gva = Thrown(MsgRefreshFailed, None)
                 /\ new.result = new.gva /\ IsReauthRequired(new.result)
                 /\ new.requests = <<>>
                 /\ tokenStore' = tokenStore]_vars

C11_Witness ==
  /\ tcall["c1"].pc = "done"
  /\ hasAccessToken(tcall["c1"].stored) /\ InBuffer(tcall["c1"])
  /\ tcall["c1"].stored[1].refreshToken # None
  /\ Len(tcall["c1"].refreshes) = 1
  /\ tcall["c1"].gva = Thrown(MsgRefreshFailed, None)
  /\ tcall["c1"].requests = <<>>
  /\ tokenStore[tcall["c1"].userId] = tcall["c1"].stored

\* C12 (as claimed): an unauthorized answer to the first attempt triggers
\* exactly one refresh.
C12_UnauthorizedAlwaysRefreshes ==
  \A c \in Calls :
    (tcall[c].answers # <<>> /\ tcall[c].answers[1] = 401) =>
      Len(marRefreshes(tcall[c])) = 1

\* C12 (amended): a call sends its API request at most twice.  The second
\* attempt is sent only after the first was answered 401 and the refresh
\* that answer triggered succeeded, and it carries the access token of that
\* refresh.  A 401 answer to the first attempt triggers exactly one refresh
\* when the record the call read has a refresh token, and none when it has
\* not; nothing else triggers one, and no third attempt is made.
C12_AtMostOneRetry ==
  [][\A c \in Calls :
       LET old == tcall[c]
           new == tcall'[c]
       IN /\ Len(new.requests) <= 2
          /\ Len(new.answers) <= Len(new.requests)
          /\ Len(marRefreshes(new)) <= 1
          /\ Len(marRefreshes(new)) =
               (IF /\ new.answers # <<>> /\ new.answers[1] = 401
                   /\ new.stored[1].refreshToken # None
                THEN 1 ELSE 0)
          /\ Len(new.requests) = 2 =>
               /\ new.answers # <<>> /\ new.answers[1] = 401
               /\ Len(marRefreshes(new)) = 1
               /\ new.reply # None
               /\ new.requests[2] = new.reply[1].access_token
               /\ new.requests[2] # new.requests[1]
          /\ (Len(new.requests) = 2 /\ Len(old.requests) = 1 /\ old.userId = new.userId) =>
               /\ old.pc = "retryRefreshing"
               /\ tokenStore'[new.userId] # None
               /\ tokenStore'[new.userId][1].accessToken = new.requests[2]]_vars

C12_Witness ==
  /\ tcall["c1"].pc = "done"
  /\ tcall["c1"].answers = <<401, 200>>
  /\ Len(tcall["c1"].requests) = 2
  /\ Len(marRefreshes(tcall["c1"])) = 1
  /\ gvaRefreshes(tcall["c1"]) = <<>>
  /\ tcall["c1"].requests[2] = tcall["c1"].reply[1].access_token
  /\ tcall["c1"].result.kind = "ok"

\* C13 (as claimed): a call whose first attempt is answered 401 and that
\* then has its refresh fail, its retry answered 401, or no refresh token to
\* refresh with, fails with a re-authentication error.
C13_UnauthorizedEndsInReauth ==
  \A c \in Calls :
    (/\ tcall[c].pc = "done"
     /\ tcall[c].answers # <<>> /\ tcall[c].answers[1] = 401
     /\ Len(tcall[c].answers) = 2 => tcall[c].answers[2] = 401) =>
      IsReauthRequired(tcall[c].result)

\* C14 (as claimed): a first attempt that fails with a status other than
\* 401 reaches the caller with that status.
C14_FailureKeepsStatus ==
  \A c \in Calls :
    (/\ tcall[c].pc = "done"
     /\ tcall[c].answers # <<>> /\ tcall[c].answers[1] \notin {200, 401}) =>
      /\ tcall[c].result.kind = "error"
      /\ tcall[c].result.status = Some(tcall[c].answers[1])

\* C14 (amended): a first attempt that fails with a status other than 401
\* ends the call: no refresh and no retry follow, the token store is left
\* as it was, and the caller gets the failure with its status, or for a 404
\* a new error that names the endpoint as not found and has no status; in
\* both cases an error that is not a re-authentication error.
C14_OtherFailuresPassThrough ==
  [][\A c \in Calls :
       LET old == tcall[c]
           new == tcall'[c]
       IN (/\ old.pc = "requesting" /\ new # old
           /\ new.answers # <<>> /\ new.answers[1] \notin {200, 401}) =>
            /\ new.pc = "done"
            /\ new.answers = <<new.answers[1]>>
            /\ new.requests = old.requests /\ Len(new.requests) = 1
            /\ new.refreshes = old.refreshes /\ marRefreshes(new) = <<>>
            /\ tokenStore' = tokenStore
            /\ new.result = (IF new.answers[1] = 404 THEN Thrown(MsgNotFound, None)
                             ELSE Thrown(MsgRequestFailed, Some(new.answers[1])))
            /\ ~IsReauthRequired(new.result)]_vars

C14_Witness ==
  /\ tcall["c1"].pc = "done"
  /\ tcall["c1"].answers = <<404>>
  /\ tcall["c1"].stored[1].refreshToken # None
  /\ tcall["c1"].refreshes = <<>>
  /\ Len(tcall["c1"].requests) = 1
  /\ tcall["c1"].result = Thrown(MsgNotFound, None)
  /\ tokenStore[tcall["c1"].userId] = tcall["c1"].stored

(***************************************************************************)
(* Specification of two concurrent calls for one user.                     *)
(***************************************************************************)
RaceUser == "default"

RaceNext ==
  \/ \E withRefresh \in BOOLEAN, e \in ExpiresIn :
       WhoopCallback(RaceUser, TRUE, withRefresh, e)
  \/ \E c \in Calls : CallStart(c, RaceUser)
  \/ \E c \in Calls, withRefresh \in BOOLEAN, e \in ExpiresIn : RefreshOk(c, withRefresh, e)
  \/ \E c \in Calls : RefreshFail(c)
  \/ \E c \in Calls, st \in RequestStatuses : RequestReply(c, st)
  \/ \E c \in Calls, st \in RequestStatuses : RetryReply(c, st)

InitRace == StoreInit /\ ReqInit /\ TokenInit /\ AuxInit

SpecRace == InitRace /\ [][RaceNext]_vars

\* the call is between its start and its end
InFlight(c) == tcall[c].pc \notin {"idle", "done"}

\* the refresh tokens the call has sent refresh requests with
refreshTokensOf(c) == {tcall[c].refreshes[k].refresh_token : k \in 1..Len(tcall[c].refreshes)}

\* C15 (as claimed): two calls in flight for the same user never both send
\* a refresh request with the same refresh token.
C15_OneRefreshPerRefreshToken ==
  \A c, d \in Calls :
    (c # d /\ InFlight(c) /\ InFlight(d) /\ tcall[c].userId = tcall[d].userId) =>
      refreshTokensOf(c) \cap refreshTokensOf(d) = {}

(***************************************************************************)
(* Specification of the Whoop authorization round trip.                    *)
(***************************************************************************)
AuthNext ==
  \/ \E q \in LoginUserIds, g \in GeneratedStates, h \in GeneratedStates : WhoopLogin(q, g, h)
  \/ \E e \in ExpiresIn : WhoopCallbackOk(TRUE, TRUE, e)
  \/ WhoopCallbackFailed

InitAuth == StoreInit /\ ReqInit /\ TokenInit /\ AuxInit

SpecAuth == InitAuth /\ [][AuthNext]_vars

\* C16 (as claimed): after a login for user u and a successful callback with
\* the state of that login, the record was stored under u.
C16_StateRoundTrip ==
  (oauth # None /\ oauth[1].pc = "completed") =>
    /\ oauth[1].storedAs = Some(oauth[1].userId)
    /\ tokenStore[oauth[1].userId] # None

(***************************************************************************)
(* Properties of the wearable routes and adapters.                         *)
(***************************************************************************)
\* C19 (as claimed): a sync with a provider id that is not registered is
\* answered with status 400, by the unsupported-provider error when the
\* request carries a provider id and a payload, and the wearable data and
\* the mood snapshot are as they were before the request.
C19_UnsupportedProviderRejected ==
  [][(wreq' # wreq /\ wreq'.route = "sync" /\ wreq'.provider \notin Providers) =>
       /\ wreq'.res.status = 400
       /\ wearableData' = wearableData
       /\ moodSnapshot' = moodSnapshot]_vars

(***************************************************************************)
(* Specification of normalize called on payloads of any shape.             *)
(***************************************************************************)
\* values of a metric property: absent, null, not a number, zero, a number
FieldValues == {Undefined, Null, Text, Num(0), Num(42)}

\* values of a sub-object of the payload: absent, null, not an object, or an
\* object with the named properties
SubValues(names) == {Undefined, Null, Text} \cup {Obj(f) : f \in [names -> FieldValues]}

\* payloads with a 0 in the field an adapter reads first and a number in the
\* field it reads second
AlternatePayloads(provider) ==
  IF provider = "oura"
  THEN {Obj([activity |-> Obj([strain |-> Num(0), score |-> Num(80)])]),
        Obj([sleep |-> Obj([resting_heart_rate |-> Num(0)]),
             readiness |-> Obj([resting_heart_rate |-> Num(58)])])}
  ELSE {Obj([recovery |-> Obj([hrv |-> Num(0), heart_rate_variability |-> Num(55)])]),
        Obj([strain |-> Num(0), training_load |-> Obj([strain |-> Num(12)])])}

\* payloads: missing, null, not an object, an empty object, and objects in
\* the shape the provider's adapter reads
ShapedPayloads(provider) ==
  {Undefined, Null, Text, Num(7), Obj(<<>>)}
  \cup AlternatePayloads(provider)
  \cup (IF provider = "oura"
        THEN {Obj([readiness |-> r, sleep |-> s, activity |-> a]) :
                r \in SubValues({"hrv_balance", "score"}),
                s \in SubValues({"score", "resting_heart_rate"}),
                a \in SubValues({"strain"})}
        ELSE {Obj([recovery |-> r, sleep |-> s, strain |-> f]) :
                r \in SubValues({"hrv", "score", "resting_heart_rate"}),
                s \in SubValues({"score"}),
                f \in FieldValues})

\* normalize(provider, payload) is called
InitNormalize ==
  /\ StoreInit /\ ReqInit /\ TokenInit
  /\ oauth = None
  /\ \E p \in Providers : \E x \in ShapedPayloads(p) :
       wreq = [route |-> "normalize", pc |-> "called", provider |-> p, payload |-> x,
               result |-> None]

\* the call returns or throws
NormalizeReturn ==
  /\ wreq.route = "normalize" /\ wreq.pc = "called"
  /\ wreq' = [wreq EXCEPT !.pc = "returned",
                          !.result = Some(normalize(wreq.provider, wreq.payload))]
  /\ UNCHANGED <<storeVars, reqVars, tokenVars, oauth>>

NormalizeNext == NormalizeReturn

SpecNormalize == InitNormalize /\ [][NormalizeNext]_vars

\* C20 (as claimed): for a registered provider normalize does not throw, and
\* its metrics have the five keys, each a number or null.
C20_NormalizeTotal ==
  (wreq.route = "normalize" /\ wreq.pc = "returned") =>
    /\ wreq.result[1].kind = "ok"
    /\ DOMAIN wreq.result[1].value.metrics = MetricKeys
    /\ \A k \in MetricKeys :
         \/ wreq.result[1].value.metrics[k] = None
         \/ wreq.result[1].value.metrics[k][1] \in Int

(***************************************************************************)
(* Specification of the fetch route with its parallel requests.            *)
(***************************************************************************)
FetchUsers == {"default", "u2"}

\* HTTP status of an answered API request of the fetch
FetchStatuses == {200, 401, 500}

FetchNext ==
  \/ /\ wreq.pc # "fetching"
     /\ \E withRefresh \in BOOLEAN, e \in ExpiresIn :
          WhoopCallback("default", TRUE, withRefresh, e)
  \/ \E u \in FetchUsers : FetchStart(u)
  \/ FetchCycleFallback
  \/ FetchFinish
  \/ ~fetchContinues /\ \E c \in FetchCalls, e \in ExpiresIn : RefreshOk(c, TRUE, e)
  \/ ~fetchContinues /\ \E c \in FetchCalls : RefreshFail(c)
  \/ ~fetchContinues /\ \E c \in FetchCalls, st \in FetchStatuses : RequestReply(c, st)
  \/ ~fetchContinues /\ \E c \in FetchCalls, st \in FetchStatuses : RetryReply(c, st)

InitFetch == StoreInit /\ ReqInit /\ TokenInit /\ AuxInit

SpecFetch == InitFetch /\ [][FetchNext]_vars

\* every call the fetch has made ended with a re-authentication error
allReauthRequired ==
  \A c \in FetchCalls : tcall[c].pc # "idle" => IsReauthRequired(tcall[c].result)

\* C17 (as claimed): a fetch for a user without a token record, or one
\* whose calls all ended with a re-authentication error, is answered 401
\* with the login URL, and leaves the wearable data and the mood snapshot
\* as they were.
C17_AuthRequiredSignal ==
  [][(/\ wreq'.route = "fetch" /\ wreq'.pc = "done" /\ wreq' # wreq
      /\ \/ wreq.pc # "fetching" /\ ~hasAccessToken(tokenStore[wreq'.userId])
         \/ wreq.pc = "fetching" /\ allReauthRequired) =>
       /\ wreq'.res = AuthRequiredRes
       /\ wearableData' = wearableData
       /\ moodSnapshot' = moodSnapshot]_vars

\* a refresh request of the call has failed
refreshFailed(call) ==
  /\ call.pc = "done"
  /\ \/ call.gva = Thrown(MsgRefreshFailed, None)
     \/ call.result = Thrown(MsgAuthFailed, None) /\ Len(call.answers) = 1

\* C18 (as claimed): during a fetch, once a refresh request of one of its
\* calls has failed, none of its calls sends another refresh request.
C18_NoRefreshAfterFailure ==
  [][(/\ wreq.route = "fetch" /\ wreq.pc = "fetching" /\ wreq'.pc = "fetching"
      /\ \E c \in FetchCalls : refreshFailed(tcall[c])) =>
       \A c \in FetchCalls : Len(tcall'[c].refreshes) <= Len(tcall[c].refreshes)]_vars

(***************************************************************************)
(* Properties of the store: samples, aggregate and reset.                  *)
(***************************************************************************)
\* the providers that have a sample in the store
recorded(data) == {p \in DOMAIN data : data[p] # None}

\* aggregate().sampleCount, 0 when there is no aggregate
sampleCountOf(data) ==
  IF getAggregatedMetrics(data) = None THEN 0 ELSE getAggregatedMetrics(data)[1].sampleCount

\* the last request of the sync route was accepted and recorded a sample
SyncAccepted(r) == r.route = "sync" /\ r.res.kind = "json" /\ r.res.status = 200

\* C21: the store holds one sample per recorded provider, the latest one.  A
\* record operation replaces the sample of its provider by the normalized
\* payload and leaves every other provider's sample alone, so sampleCount
\* grows by one for a provider recorded for the first time and stays for one
\* recorded again; nothing but a record operation or a reset changes the
\* samples; sampleCount is the number of providers that have a sample, and
\* as long as the provider of the last record operation has a sample it is
\* that operation's sample.
C21_LatestSamplePerProvider ==
  /\ [](/\ sampleCountOf(wearableData) = Cardinality(recorded(wearableData))
        /\ (SyncAccepted(wreq) /\ wearableData[wreq.provider] # None) =>
             wearableData[wreq.provider] = Some(normalize(wreq.provider, wreq.payload).value))
  /\ [][LET latest == [wearableData EXCEPT ![wreq'.provider] =
                         Some(normalize(wreq'.provider, wreq'.payload).value)]
        IN /\ (wreq' # wreq /\ SyncAccepted(wreq')) =>
                /\ wearableData' = latest
                /\ sampleCountOf(wearableData') =
                     Cardinality(recorded(wearableData) \cup {wreq'.provider})
                /\ wreq'.provider \in recorded(wearableData) =>
                     sampleCountOf(wearableData') = sampleCountOf(wearableData)
           /\ (wearableData' # wearableData) =>
                \/ recorded(wearableData') = {}
                \/ SyncAccepted(wreq') /\ wearableData' = latest]_vars

\* both providers have a sample, Whoop's being the partial one recorded last
C21_Witness ==
  /\ SyncAccepted(wreq) /\ wreq.provider = "whoop" /\ wreq.payload \in PartialPayloads
  /\ recorded(wearableData) = Providers
  /\ sampleCountOf(wearableData) = 2
  /\ wearableData["whoop"] = Some(normalize("whoop", wreq.payload).value)

\* the value a provider's sample supplies for a metric, in hundredths, and
\* whether it supplies one
supplies(p, k) == wearableData[p] # None /\ wearableData[p][1].metrics[k] # None
supplied(p, k) == IF supplies(p, k) THEN wearableData[p][1].metrics[k][1] ELSE 0

\* C22: when there is an aggregate, each of its five metrics is null when no
\* current sample supplies the metric, and otherwise the hundredth nearest
\* to sum / j, where sum adds the values of the j samples that supply it:
\* a sample with a null value adds nothing to the sum and is not counted.
C22_AverageOverSuppliedOnly ==
  getAggregatedMetrics(wearableData) # None =>
    \A k \in MetricKeys :
      LET j == Cardinality({p \in StoreKeys : supplies(p, k)})
          sum == supplied("whoop", k) + supplied("oura", k) + supplied("constructor", k)
          avg == getAggregatedMetrics(wearableData)[1].metrics[k]
      IN IF j = 0 THEN avg = None
         ELSE /\ avg # None
              /\ 2 * (avg[1] * j - sum) <= j
              /\ 2 * (sum - avg[1] * j) <= j

\* two samples of which one supplies the sleep score only: sleepQuality is
\* averaged over two samples and readiness over one, and a third sample
\* that supplies nothing
C22_Witness ==
  /\ recorded(wearableData) = StoreKeys
  /\ supplies("whoop", "readiness") /\ ~supplies("oura", "readiness")
  /\ supplies("whoop", "sleepQuality") /\ supplies("oura", "sleepQuality")
  /\ supplied("whoop", "sleepQuality") # supplied("oura", "sleepQuality")
  /\ getAggregatedMetrics(wearableData)[1].metrics["readiness"] =
       Some(supplied("whoop", "readiness"))
  /\ getAggregatedMetrics(wearableData)[1].sampleCount = 3

\* C23: the aggregate is absent exactly when the store holds no sample, and
\* the store holds no sample only at the start and after a reset: an accepted
\* record operation leaves a sample and an aggregate, the samples go away
\* only all together, and whenever the store is empty (whatever was recorded
\* before) the aggregate and the mood snapshot are absent.
C23_AbsentIffNothingRecorded ==
  /\ []((getAggregatedMetrics(wearableData) = None) <=> (recorded(wearableData) = {}))
  /\ [](recorded(wearableData) = {} => moodSnapshot = None)
  /\ [][/\ (wreq' # wreq /\ SyncAccepted(wreq')) =>
            getAggregatedMetrics(wearableData') # None
        /\ (recorded(wearableData) # {} /\ wearableData' # wearableData) =>
            \/ recorded(wearableData) \subseteq recorded(wearableData')
            \/ recorded(wearableData') = {} /\ moodSnapshot' = None]_vars

\* the store is empty although a record operation was accepted before
C23_Witness ==
  /\ SyncAccepted(wreq)
  /\ recorded(wearableData) = {}
  /\ getAggregatedMetrics(wearableData) = None
  /\ moodSnapshot = None

(***************************************************************************)
(* Specification of inferMood called on aggregated metrics of any values,  *)
(* those at the thresholds of the label rules among them, and on none.     *)
(***************************************************************************)
\* metric values around the thresholds (whole numbers), and null
ReadinessValues == {None, Some(40), Some(45), Some(55), Some(56), Some(70), Some(71), Some(85)}
SleepValues == {None, Some(44), Some(45), Some(70), Some(71)}
StrainValues == {None, Some(10), Some(12), Some(13), Some(21)}

\* aggregated metrics handed to inferMood, in hundredths; null stands for
\* the aggregate of an empty store
\* metric values below, at, inside, at and above the scaling ranges, in
\* hundredths, and null; a resting heart rate of 0 among them
WideScores == {None, Some(-500), Some(0), Some(5000), Some(10000), Some(15000)}
WideHrv == {None, Some(1000), Some(2000), Some(8500), Some(15000), Some(20000)}
WideStrain == {None, Some(-100), Some(0), Some(2100), Some(3000)}
WideRestingHr == {None, Some(0), Some(2000), Some(3000), Some(5500), Some(9000), Some(12000)}
WideInputs ==
  {Some([sampleCount |-> 1, providers |-> {"whoop"},
         metrics |-> [hrv |-> h, sleepQuality |-> r, strain |-> t, readiness |-> r,
                      restingHeartRate |-> b]]) :
     r \in WideScores, h \in WideHrv, t \in WideStrain, b \in WideRestingHr}

MoodInputs ==
  {None} \cup WideInputs \cup
  {Some([sampleCount |-> 1, providers |-> {"whoop"},
         metrics |-> [hrv |-> Some(6000),
                      sleepQuality |-> IF s = None THEN None ELSE Some(100 * s[1]),
                      strain |-> IF t = None THEN None ELSE Some(100 * t[1]),
                      readiness |-> IF r = None THEN None ELSE Some(100 * r[1]),
                      restingHeartRate |-> Some(5500)]]) :
     r \in ReadinessValues, s \in SleepValues, t \in StrainValues}

InitMood ==
  /\ StoreInit /\ ReqInit /\ TokenInit
  /\ oauth = None
  /\ \E a \in MoodInputs : wreq = [route |-> "mood", pc |-> "called", aggregated |-> a]

\* inferMood(aggregatedMetrics): the mood, or null for the thrown error
MoodReturn ==
  /\ wreq.route = "mood" /\ wreq.pc = "called"
  /\ wreq' = [route |-> "mood", pc |-> "returned", aggregated |-> wreq.aggregated,
              result |-> inferMood(wreq.aggregated)]
  /\ UNCHANGED <<storeVars, reqVars, tokenVars, oauth>>

MoodNext == MoodReturn

SpecMood == InitMood /\ [][MoodNext]_vars

\* the feature vector of the call, and the rules it matches
features == buildFeatureVector(wreq.aggregated[1].metrics)
matchesFlow == features.readinessScore > 70 /\ features.sleepScore > 70
matchesAmped == features.strainScore > 60 /\ features.readinessScore > 55
matchesRecovery == features.readinessScore < 45 \/ features.sleepScore < 45
classified == wreq.route = "mood" /\ wreq.pc = "returned" /\ wreq.aggregated # None

\* C24: the label is that of the first rule that matches, in the order flow,
\* amped, recovery, reset: flow whenever the flow rule matches (also when the
\* amped rule matches too), amped whenever the amped rule matches and the
\* flow rule does not (also when the recovery rule matches too), recovery
\* when only the recovery rule matches, reset when none does; every vector
\* gets one of the four labels.
C24_FirstMatchingRule ==
  classified =>
    /\ wreq.result # None
    /\ wreq.result[1].label \in MoodLabels
    /\ matchesFlow => wreq.result[1].label = "flow"
    /\ (matchesAmped /\ ~matchesFlow) => wreq.result[1].label = "amped"
    /\ (matchesRecovery /\ ~matchesAmped /\ ~matchesFlow) =>
         wreq.result[1].label = "recovery"
    /\ (~matchesRecovery /\ ~matchesAmped /\ ~matchesFlow) =>
         wreq.result[1].label = "reset"

\* a vector that matches both the amped and the recovery rule is labelled amped
C24_Witness ==
  /\ classified
  /\ matchesAmped /\ matchesRecovery /\ ~matchesFlow
  /\ wreq.result[1].label = "amped"

\* a vector that matches both the flow and the amped rule is labelled flow
C24_WitnessFlow ==
  /\ classified
  /\ matchesFlow /\ matchesAmped
  /\ wreq.result[1].label = "flow"

(***************************************************************************)
(* Properties of the mood routes.                                          *)
(***************************************************************************)
\* C25: a mood run while the aggregate is absent (nothing synced, or reset)
\* is answered with the 400 error "No wearable data has been ingested yet."
\* and leaves the mood snapshot and the samples as they were.
C25_NoMetricsError ==
  [][(/\ wreq' # wreq /\ wreq'.route = "run"
      /\ getAggregatedMetrics(wearableData) = None) =>
       /\ wreq'.res.kind = "error"
       /\ wreq'.res.status = 400
       /\ wreq'.res.message = "No wearable data has been ingested yet."
       /\ moodSnapshot' = moodSnapshot
       /\ wearableData' = wearableData]_vars

\* a mood run was answered 400 on an empty store
C25_Witness ==
  /\ wreq.route = "run" /\ wreq.res.status = 400
  /\ getAggregatedMetrics(wearableData) = None
  /\ moodSnapshot = None

\* C26 (as claimed): the mood a sync returns and stores is the
\* classification of the aggregate the store holds after the sample was
\* recorded, the aggregate a mood run would classify.
C26_SyncMoodOfAggregate ==
  [][(wreq' # wreq /\ SyncAccepted(wreq')) =>
       moodSnapshot' = inferMood(getAggregatedMetrics(wearableData'))]_vars

(***************************************************************************)
(* Properties of the enrichment step of the playlist routes.               *)
(***************************************************************************)
\* the enrichment call of the playlist request in flight has failed
enrichFailed == req.route = "playlist" /\ enrichReply # None /\ ~enrichReply[1].ok

\* the candidates of a mood that carries no enrichment hints
heuristicQueries(label) ==
  {getPreset(label)[i] : i \in 1..Len(getPreset(label))} \cup {label}

\* C27: after the enrichment call of a playlist request has failed, whatever
\* the failure, the request goes on with the stored mood snapshot as its
\* mood, unmodified; every search call is for a preset query or the label;
\* and the request ends with status 200 and tracks, tagged "spotify-search"
\* or "fallback", never "openai-search".
C27_EnrichFailureNotFatal ==
  enrichFailed =>
    /\ pc \in {"searching", "done"}
    /\ mood = moodSnapshot
    /\ aiAttempts(mood[1], req.useAI) = <<>>
    /\ \A k \in 1..Len(attempts) : attempts[k] \in heuristicQueries(mood[1].label)
    /\ \A k \in 1..Len(calls) : calls[k].query \in heuristicQueries(mood[1].label)
    /\ pc = "done" =>
         /\ res.kind = "json" /\ res.status = 200
         /\ res.tracks # <<>>
         /\ res.source \in {"spotify-search", "fallback"}

\* the enrichment call was rate limited, and a search found tracks
C27_Witness ==
  /\ enrichFailed /\ enrichReply[1].status = Some(429)
  /\ pc = "done"
  /\ Len(calls) = 2
  /\ res.status = 200 /\ res.source = "spotify-search"

\* C28: an AI playlist request without a biometric override, made while the
\* store has no aggregate, is answered at once with status 400 and the
\* "No biometric data" message; no enrichment call and no search call is
\* issued for it.
C28_NoBiometricsRejected ==
  (/\ req.route = "ai" /\ ~req.biometricOverride
   /\ getAggregatedMetrics(wearableData) = None) =>
    /\ pc = "done"
    /\ res.kind = "json" /\ res.status = 400
    /\ res.message =
         "No biometric data available. Please sync wearable data first or provide biometricOverride."
    /\ res.tracks = <<>>
    /\ enrichCalls = 0 /\ enrichReply = None
    /\ calls = <<>> /\ attempts = <<>>

\* such a request that carried an access token, with an enrichment key set
C28_Witness ==
  /\ req.route = "ai" /\ ~req.biometricOverride
  /\ req.accessToken = Some("spotify-token") /\ req.openaiKey
  /\ getAggregatedMetrics(wearableData) = None
  /\ res.status = 400

(***************************************************************************)
(* Specification of the lifetime of a token record: authorizations and     *)
(* authenticated requests of one user, next to syncs and resets of the     *)
(* store.                                                                  *)
(***************************************************************************)
LifetimeNext ==
  \/ \E withAccess \in BOOLEAN, withRefresh \in BOOLEAN, e \in ExpiresIn :
       WhoopCallback(RaceUser, withAccess, withRefresh, e)
  \/ CallStart("c1", RaceUser)
  \/ \E withRefresh \in BOOLEAN, e \in ExpiresIn : RefreshOk("c1", withRefresh, e)
  \/ RefreshFail("c1")
  \/ \E st \in RequestStatuses : RequestReply("c1", st)
  \/ \E st \in RequestStatuses : RetryReply("c1", st)
  \/ \E payload \in PartialPayloads : SyncWearable("whoop", payload)
  \/ ResetStore

InitLifetime == StoreInit /\ ReqInit /\ TokenInit /\ AuxInit

SpecLifetime == InitLifetime /\ [][LifetimeNext]_vars

\* C29: a user's token record, once stored, is never removed: whatever the
\* step (a refresh that succeeds or fails, a request that fails, a reset of
\* the store), a user who has a record before it has one after it, and a
\* successful refresh puts the new record under the same user.
C29_TokenRecordPersists ==
  [][/\ \A u \in TokenKeys : tokenStore[u] # None => tokenStore'[u] # None
     /\ \A c \in Calls :
          (tcall[c].pc \in {"refreshing", "retryRefreshing"} /\ issued' = issued + 1) =>
            /\ tokenStore'[tcall[c].userId] # None
            /\ \A u \in TokenKeys \ {tcall[c].userId} : tokenStore'[u] = tokenStore[u]]_vars

\* the record is there after a refresh failed and the store was reset
C29_Witness ==
  /\ tokenStore[RaceUser] # None
  /\ tcall["c1"].pc = "done"
  /\ tcall["c1"].result = Thrown(MsgRefreshFailed, None)
  /\ SyncAccepted(wreq) /\ recorded(wearableData) = {}

(***************************************************************************)
(* Order of the search calls of a resolve.                                 *)
(***************************************************************************)
\* the search calls of the resolve that have no answer yet
searchesInFlight == {k \in 1..Len(calls) : ~Answered(k)}

\* C30: the search calls of a resolve are strictly sequential.  At most one
\* call is in flight, and it is the last one issued; every call before the
\* last one has completed, with an empty result or a failure other than
\* unauthorized; and a step issues at most one call, for the next candidate,
\* and only in the step in which the call before it completes.
C30_SequentialSearch ==
  /\ [](/\ Cardinality(searchesInFlight) <= 1
        /\ searchesInFlight \subseteq {Len(calls)}
        /\ \A k \in 1..(Len(calls) - 1) : Empty(k) \/ OtherFailure(k))
  /\ [][(Len(calls') > Len(calls) /\ Len(calls) > 0 /\ pc = "searching") =>
          /\ Len(calls') = Len(calls) + 1
          /\ ~Answered(Len(calls))
          /\ calls'[Len(calls)].outcome.kind # "pending"
          /\ calls'[Len(calls')].query = attempts[Len(calls')]
          /\ calls'[Len(calls')].outcome.kind = "pending"]_vars

\* the third call is in flight after an empty result and a failure
C30_Witness ==
  /\ pc = "searching"
  /\ Len(calls) = 3
  /\ Empty(1) /\ OtherFailure(2)
  /\ searchesInFlight = {3}

(***************************************************************************)
(* Properties of the feature vector.                                       *)
(***************************************************************************)
\* the score a metric value (in hundredths) must get by the linear scaling
\* with clamping over the whole range min..max: the default for null, 0 at
\* or below min, 100 at or above max
inUnit(score) == score \in 0..100
scaled(value, min, max, default, score) ==
  /\ inUnit(score)
  /\ value = None => score = default
  /\ (value # None /\ value[1] <= 100 * min) => score = 0
  /\ (value # None /\ value[1] >= 100 * max) => score = 100

\* the value the resting-HR score is scaled from: 80 - restingHeartRate
restingHrValue(metrics) ==
  IF metrics.restingHeartRate = None THEN None
  ELSE Some(8000 - metrics.restingHeartRate[1])

\* C31 (as claimed): every score is in [0,1]; a null metric gives the
\* default (0.5, and 0.3 for strain), a value at or below the minimum of its
\* range gives 0 and a value at or above the maximum gives 1, for each of
\* the five scores.
C31_ScoresScaledAndClamped ==
  classified =>
    LET m == wreq.aggregated[1].metrics
    IN /\ scaled(m.readiness, 0, 100, 50, features.readinessScore)
       /\ scaled(m.hrv, 20, 150, 50, features.recoveryScore)
       /\ scaled(m.sleepQuality, 0, 100, 50, features.sleepScore)
       /\ scaled(m.strain, 0, 21, 30, features.strainScore)
       /\ scaled(restingHrValue(m), -10, 50, 50, features.restingHrScore)

\* C31 (amended): as claimed, but a resting heart rate of 0 counts as a
\* missing one and gives the default 0.5, not the score 1 of the scaling.
C31_ScoresClampedZeroRestingHrDefault ==
  classified =>
    LET m == wreq.aggregated[1].metrics
    IN /\ scaled(m.readiness, 0, 100, 50, features.readinessScore)
       /\ scaled(m.hrv, 20, 150, 50, features.recoveryScore)
       /\ scaled(m.sleepQuality, 0, 100, 50, features.sleepScore)
       /\ scaled(m.strain, 0, 21, 30, features.strainScore)
       /\ IF m.restingHeartRate = Some(0) THEN features.restingHrScore = 50
          ELSE scaled(restingHrValue(m), -10, 50, 50, features.restingHrScore)

\* values beyond both ends of their ranges, a null one and a resting heart
\* rate of 0 in one vector
C31_Witness ==
  /\ classified
  /\ wreq.aggregated[1].metrics.readiness = Some(15000)
  /\ wreq.aggregated[1].metrics.hrv = Some(1000)
  /\ wreq.aggregated[1].metrics.strain = None
  /\ wreq.aggregated[1].metrics.restingHeartRate = Some(0)
  /\ features.readinessScore = 100 /\ features.recoveryScore = 0
  /\ features.strainScore = 30 /\ features.restingHrScore = 50

(***************************************************************************)
(* Further properties of the token lifecycle.                              *)
(***************************************************************************)
\* C32 (as claimed): a refresh request a call sends for its user carries the
\* refresh token of the record the store holds for that user when the
\* request is sent; so after a refresh of its own, the call's second refresh
\* carries the refresh token the first refresh stored.
C32_RefreshCarriesStoredToken ==
  [][\A c \in Calls :
       Len(tcall'[c].refreshes) > Len(tcall[c].refreshes) =>
         /\ tokenStore[tcall'[c].userId] # None
         /\ tokenStore[tcall'[c].userId][1].refreshToken =
              Some(tcall'[c].refreshes[Len(tcall'[c].refreshes)].refresh_token)]_vars

\* C33 (as claimed): a call whose retry, after a 401 and a successful
\* refresh, is answered with a status other than 200 and 401 ends with
\* that failure, not with a re-authentication error.
C33_RetryFailureKeepsKind ==
  \A c \in Calls :
    (/\ tcall[c].pc = "done"
     /\ Len(tcall[c].answers) = 2
     /\ tcall[c].answers[1] = 401
     /\ tcall[c].answers[2] \notin {200, 401}) =>
      /\ tcall[c].result.kind = "error"
      /\ ~IsReauthRequired(tcall[c].result)

\* the step in which the refresh request of call c fails
refreshFails(c) ==
  /\ tcall[c].pc \in {"refreshing", "retryRefreshing"}
  /\ tcall'[c].pc = "done"
  /\ tcall'[c].result.kind = "error"

\* the user's record is the one the call read at its start, or the one a
\* refresh of the call itself has stored: nobody else has written it
ownWritesOnly(call) ==
  \/ tokenStore[call.userId] = call.stored
  \/ /\ call.reply # None /\ tokenStore[call.userId] # None
     /\ tokenStore[call.userId][1].accessToken = call.reply[1].access_token

\* C34 (as claimed): when a refresh of a call fails, the user's record is
\* exactly the record of before the call (the one the call read at its
\* start), provided nobody but the call has written it meanwhile.
C34_FailedRefreshKeepsRecordOfCallStart ==
  [][\A c \in Calls :
       (refreshFails(c) /\ ownWritesOnly(tcall[c])) =>
         tokenStore'[tcall[c].userId] = tcall[c].stored]_vars

\* C34 (amended): a failed refresh writes nothing: the token store after the
\* step is the store before it, for every user.  The record is the one of
\* before the call when the call has not refreshed successfully before
\* (always so for a failure in getValidAccessToken), and the one the call's
\* own earlier refresh stored otherwise.
C34_FailedRefreshWritesNothing ==
  [][\A c \in Calls :
       refreshFails(c) =>
         /\ tokenStore' = tokenStore
         /\ (ownWritesOnly(tcall[c]) /\ tcall[c].reply = None) =>
              tokenStore'[tcall[c].userId] = tcall[c].stored
         /\ tcall[c].pc = "refreshing" => tcall[c].reply = None
         /\ (ownWritesOnly(tcall[c]) /\ tcall[c].reply # None) =>
              tokenStore'[tcall[c].userId][1].accessToken = tcall[c].reply[1].access_token]_vars

\* the second refresh of a call failed after its first one had succeeded:
\* the store holds the record of the first refresh
C34_Witness ==
  /\ tcall["c1"].pc = "done"
  /\ tcall["c1"].result = Thrown(MsgAuthFailed, None)
  /\ tcall["c1"].answers = <<401>>
  /\ Len(tcall["c1"].refreshes) = 2
  /\ tcall["c1"].reply # None
  /\ tokenStore[tcall["c1"].userId] # tcall["c1"].stored
  /\ tokenStore[tcall["c1"].userId][1].accessToken = tcall["c1"].reply[1].access_token

(***************************************************************************)
(* Specification of two concurrent calls for one user, with the token      *)
(* responses in flight: the provider answers a refresh request, and the    *)
(* call resumes when the response reaches it.  The responses of two        *)
(* requests travel on their own connections and reach the process in       *)
(* either order.                                                           *)
(***************************************************************************)
\* the provider answers the call's refresh request with new tokens (the
\* response awaited at lines 145 and 192)
RefreshAnswered(c, withRefresh, expiresIn) ==
  /\ tcall[c].pc \in {"refreshing", "retryRefreshing"}
  /\ issued < MaxIssued
  /\ issued' = issued + 1
  /\ tcall' = [tcall EXCEPT ![c] =
       [tcall[c] EXCEPT !.pc = IF tcall[c].pc = "refreshing" THEN "refreshAnswered"
                                ELSE "retryRefreshAnswered",
                        !.reply = Some(TokenResponse(TRUE, withRefresh, expiresIn))]]
  /\ UNCHANGED <<tokenStore, now, storeVars, reqVars, auxVars>>

\* the response reaches the call: getValidAccessToken stores the tokens and
\* returns (lines 145-148) and the request is sent, or the 401 branch stores
\* them and retries the request (lines 194-212)
RefreshDelivered(c) ==
  /\ tcall[c].pc \in {"refreshAnswered", "retryRefreshAnswered"}
  /\ LET call == tcall[c]
         refreshed == refreshedTokens(call.reply[1],
                                      call.refreshes[Len(call.refreshes)].refresh_token, now)
     IN /\ tokenStore' = [tokenStore EXCEPT ![call.userId] = Some(refreshed)]
        /\ tcall' = [tcall EXCEPT ![c] =
             IF call.pc = "refreshAnswered"
             THEN [SendRequest(call, refreshed.accessToken, "requesting") EXCEPT
                     !.gva = Returned(refreshed.accessToken)]
             ELSE SendRequest(call, refreshed.accessToken, "retrying")]
  /\ UNCHANGED <<now, issued, storeVars, reqVars, auxVars>>

DeliveryNext ==
  \/ \E withRefresh \in BOOLEAN, e \in ExpiresIn :
       WhoopCallback(RaceUser, TRUE, withRefresh, e)
  \/ \E c \in Calls : CallStart(c, RaceUser)
  \/ \E c \in Calls, withRefresh \in BOOLEAN, e \in ExpiresIn :
       RefreshAnswered(c, withRefresh, e)
  \/ \E c \in Calls : RefreshDelivered(c)
  \/ \E c \in Calls : RefreshFail(c)
  \/ \E c \in Calls, st \in RequestStatuses : RequestReply(c, st)
  \/ \E c \in Calls, st \in RequestStatuses : RetryReply(c, st)

InitDelivery == StoreInit /\ ReqInit /\ TokenInit /\ AuxInit

SpecDelivery == InitDelivery /\ [][DeliveryNext]_vars

\* the call received the token response the provider issued last
answeredLast(c) == tcall[c].reply # None /\ tcall[c].reply[1].access_token = issued

\* C35 (as claimed): once every call for the user has completed, and the
\* newest tokens were issued by a refresh answer, the stored record holds the
\* tokens of that answer, the one the provider gave last.
C35_StoreHoldsLastAnsweredRefresh ==
  ((\A c \in Calls : tcall[c].pc = "done") /\ (\E c \in Calls : answeredLast(c))) =>
    /\ tokenStore[RaceUser] # None
    /\ tokenStore[RaceUser][1].accessToken = issued
    /\ \A c \in Calls :
         (answeredLast(c) /\ tcall[c].reply[1].refresh_token # None) =>
           tokenStore[RaceUser][1].refreshToken = tcall[c].reply[1].refresh_token

(***************************************************************************)
(* Specification of the authorization callback as a public route: the      *)
(* callback is a GET request anyone can send, with any state value or      *)
(* none, before or after a login.                                          *)
(***************************************************************************)
\* the state values getAuthorizationUrl can put in a redirect
IssuableStates ==
  {authorizationState(loginState(g, loginUserId(q)), h) :
     q \in LoginUserIds, g \in GeneratedStates, h \in GeneratedStates}

\* a state value no login has produced: shorter than 8 characters, with a
\* user id after the underscore
ForgedState == <<"x", "_", "u", "2">>

\* req.query.state of a callback: absent, forged, or the one of the redirect
CallbackQueries ==
  {None, Some(ForgedState)} \cup (IF oauth = None THEN {} ELSE {Some(oauth[1].state)})

\* GET /auth/whoop/callback with a code the provider accepts (lines 198-237):
\* the user id is read from the query's state, the code is exchanged and the
\* tokens are stored under that user id
WhoopCallbackWith(query, expiresIn) ==
  /\ query \in CallbackQueries
  /\ issued < MaxIssued
  /\ issued' = issued + 1
  /\ LET state == IF query = None THEN <<>> ELSE query[1]
         userId == Str(callbackUserId(state))
         response == TokenResponse(TRUE, TRUE, expiresIn)
     IN /\ tokenStore' = [tokenStore EXCEPT ![userId] =
             Some(exchanged(response.access_token, response.refresh_token,
                            response.expires_in, now))]
        /\ wreq' = [route |-> "callback", pc |-> "done", state |-> query,
                    userId |-> userId]
  /\ UNCHANGED <<now, tcall, oauth, storeVars, reqVars>>

ForgeNext ==
  \/ \E q \in LoginUserIds, g \in GeneratedStates, h \in GeneratedStates : WhoopLogin(q, g, h)
  \/ \E query \in {None, Some(ForgedState)} \cup {Some(s) : s \in IssuableStates},
          e \in ExpiresIn : WhoopCallbackWith(query, e)

InitForge == StoreInit /\ ReqInit /\ TokenInit /\ AuxInit

SpecForge == InitForge /\ [][ForgeNext]_vars

\* C36 (as claimed): a callback that carries no state, or a state value that
\* no login issued, stores no token record for any user.
C36_UnissuedStateStoresNothing ==
  [][(/\ issued' # issued
      /\ wreq'.route = "callback"
      /\ \/ wreq'.state = None
         \/ wreq'.state[1] \notin IssuableStates) =>
       tokenStore' = tokenStore]_vars

\* C37: a step of a call made for user A leaves the token record of every
\* other user, or its absence, as it was, whatever the step and its outcome;
\* and the record the call reads at its start is A's.
C37_CallTouchesOwnRecordOnly ==
  [][\A c \in Calls :
       tcall'[c] # tcall[c] =>
         /\ \A b \in DOMAIN tokenStore :
              b # tcall'[c].userId => tokenStore'[b] = tokenStore[b]
         /\ Starts(c) => tcall'[c].stored = tokenStore[tcall'[c].userId]]_vars

\* a call for user u2 has refreshed and ended while the default user holds a
\* record of its own
C37_Witness ==
  /\ tcall["c1"].pc = "done"
  /\ tcall["c1"].userId = "u2"
  /\ tcall["c1"].reply # None
  /\ tokenStore["u2"] # None
  /\ tokenStore["u2"][1].accessToken = tcall["c1"].reply[1].access_token
  /\ tokenStore["default"] # None
  /\ tokenStore["default"] # tokenStore["u2"]

\* the mood carries an enrichment hint or the provenance mark
hasEnrichment(m) == m.searchQuery # None \/ m.seedGenres # None \/ m.source # None

\* a step that starts a playlist request with enrichment disabled
plainPlaylistRequest ==
  /\ pc \in {"idle", "done"}
  /\ req'.route = "playlist" /\ ~req'.useAI
  /\ pc' # "idle"

\* C38: no step of a playlist request changes the stored mood snapshot or
\* the aggregation store, and the stored snapshot never carries an enrichment
\* hint; a playlist request with enrichment disabled, made after any other
\* request, resolves with the stored snapshot itself, without hints.
C38_PlaylistRequestKeepsStore ==
  /\ [](moodSnapshot # None => ~hasEnrichment(moodSnapshot[1]))
  /\ [][/\ storeVars' = storeVars
        /\ (plainPlaylistRequest /\ moodSnapshot # None) =>
             /\ mood' = moodSnapshot
             /\ ~hasEnrichment(mood'[1])
             /\ enrichCalls' = 0]_vars

\* an enriched playlist request has ended: its mood carries the hints and the
\* mark, the stored snapshot does not
C38_Witness ==
  /\ pc = "done"
  /\ req.route = "playlist" /\ req.useAI
  /\ enrichReply # None /\ enrichReply[1].ok
  /\ mood # None /\ mood[1].source = Some("openai") /\ mood[1].searchQuery # None
  /\ moodSnapshot # None /\ ~hasEnrichment(moodSnapshot[1])
  /\ mood[1].label = moodSnapshot[1].label

(***************************************************************************)
(* Specification of fetchLiveTracks on its own, with every search call     *)
(* eventually answered: the awaited call of line 118 settles, with items,  *)
(* with none or with an error, and the loop then runs its next step.       *)
(***************************************************************************)
SpecResolveLive ==
  InitResolve /\ [][ResolveNext]_vars
  /\ WF_vars(\E o \in SearchOutcomes : SearchReply(o))

\* the resolve has ended with tracks, with the expired-token error or with
\* the no-results error
resolveEnded ==
  /\ pc = "done"
  /\ \/ live.kind = "ok" /\ Len(live.tracks) > 0
     \/ live = TokenExpiredError
     \/ live = NoResultsError

\* C39: when every search call is eventually answered, a resolve that is
\* searching ends, with tracks, the expired-token error or the no-results
\* error; it makes at most 6 search calls (2 from the hints, 3 from the
\* preset, the label), whatever the answers.
C39_ResolveTerminates ==
  /\ (pc = "searching") ~> resolveEnded
  /\ [](Len(attempts) <= 6 /\ Len(calls) <= Len(attempts))
  /\ [](pc = "done" /\ req.route = "direct" => resolveEnded)

\* a resolve found tracks at its sixth search call, after empty answers and
\* failures
C39_Witness ==
  /\ resolveEnded
  /\ Len(calls) = 6
  /\ Found(6)
  /\ \E k \in 1..5 : Empty(k)
  /\ \E k \in 1..5 : OtherFailure(k)

\* the field an adapter reads first for a metric: the left operand of ?? in
\* the Whoop adapter, of || (or the only field) in the Oura adapter
firstField(provider, payload, key) ==
  LET whoopRecovery == Either(Get(payload, "recovery"), Obj(<<>>))
      whoopSleep == Either(Get(payload, "sleep"), Obj(<<>>))
      ouraReadiness == Either(Get(payload, "readiness"), Obj(<<>>))
      ouraSleep == Either(Either(Get(payload, "sleep"), Get(payload, "sleep_summary")),
                          Obj(<<>>))
  IN IF provider = "whoop"
     THEN CASE key = "hrv" -> Get(whoopRecovery, "hrv")
            [] key = "sleepQuality" -> Get(whoopSleep, "score")
            [] key = "strain" -> Get(payload, "strain")
            [] key = "readiness" -> Get(whoopRecovery, "score")
            [] key = "restingHeartRate" -> Get(whoopRecovery, "resting_heart_rate")
     ELSE CASE key = "hrv" -> Get(ouraReadiness, "hrv_balance")
            [] key = "sleepQuality" -> Get(ouraSleep, "score")
            [] key = "strain" -> OptGet(Get(payload, "activity"), "strain")
            [] key = "readiness" -> Get(ouraReadiness, "score")
            [] key = "restingHeartRate" -> Get(ouraSleep, "resting_heart_rate")

\* the field the Oura adapter reads when the first one is falsy (lines 58, 60)
secondField(payload, key) ==
  IF key = "strain" THEN OptGet(Get(payload, "activity"), "score")
  ELSE Get(Either(Get(payload, "readiness"), Obj(<<>>)), "resting_heart_rate")

\* the metrics with two fields joined by || in the Oura adapter
ouraFallbackKeys == {"strain", "restingHeartRate"}

\* the default score of the feature that a metric feeds
defaultScoreHolds(metrics, key) ==
  LET f == buildFeatureVector(metrics)
  IN CASE key = "hrv" -> f.recoveryScore = 50
       [] key = "sleepQuality" -> f.sleepScore = 50
       [] key = "strain" -> f.strainScore = 30
       [] key = "readiness" -> f.readinessScore = 50
       [] key = "restingHeartRate" -> f.restingHrScore = 50

\* the other provider's sample, with every metric present
otherProvider(provider) == IF provider = "whoop" THEN "oura" ELSE "whoop"
otherSample(provider) ==
  normalize(otherProvider(provider),
            fixture(otherProvider(provider),
                    [readiness |-> Some(85), sleep |-> Some(80), hrv |-> Some(60),
                     strain |-> Some(10), rhr |-> Some(55)])).value

\* the store with the sample of the call alone, and with the other provider's
storeWith(sample, provider) ==
  [p \in StoreKeys |-> IF p = provider THEN Some(sample) ELSE None]
storeWithBoth(sample, provider) ==
  [storeWith(sample, provider) EXCEPT ![otherProvider(provider)] =
     Some(otherSample(provider))]

normalizedOk == wreq.route = "normalize" /\ wreq.pc = "returned" /\ wreq.result[1].kind = "ok"

\* C40 (as claimed): a metric whose raw field is the number 0 is normalized
\* to null.
C40_ZeroFieldIsNull ==
  normalizedOk =>
    \A k \in MetricKeys :
      firstField(wreq.provider, wreq.payload, k) = Num(0) =>
        wreq.result[1].value.metrics[k] = None

\* C40 (amended): no metric of a normalized sample is 0.  A 0 in the field
\* read first gives null, as an absent or a non-numeric value does, except for
\* the two Oura metrics read with a second field: there a 0 in the first
\* field gives the second field's number, or null when that is missing, not
\* a number or 0.  A null metric is left out of the aggregate average and its
\* feature takes the default score.
C40_ZeroNeverCanonical ==
  normalizedOk =>
    LET sample == wreq.result[1].value
        m == sample.metrics
    IN \A k \in MetricKeys :
         /\ m[k] # Some(0)
         /\ firstField(wreq.provider, wreq.payload, k) = Num(0) =>
              IF wreq.provider = "oura" /\ k \in ouraFallbackKeys
              THEN m[k] = NumberOrNull(secondField(wreq.payload, k))
              ELSE m[k] = None
         /\ m[k] = None =>
              /\ averageMetric(storeWith(sample, wreq.provider), k) = None
              /\ averageMetric(storeWithBoth(sample, wreq.provider), k)
                   = otherSample(wreq.provider).metrics[k]
              /\ defaultScoreHolds(
                   getAggregatedMetrics(storeWith(sample, wreq.provider))[1].metrics, k)

\* a Whoop payload with a strain of 0 and a resting heart rate of 42 has been
\* normalized: the strain is null, the resting heart rate is kept
C40_Witness ==
  /\ normalizedOk
  /\ wreq.provider = "whoop"
  /\ firstField("whoop", wreq.payload, "strain") = Num(0)
  /\ firstField("whoop", wreq.payload, "restingHeartRate") = Num(42)
  /\ wreq.result[1].value.metrics.strain = None
  /\ wreq.result[1].value.metrics.restingHeartRate = Some(4200)

====
